---- MODULE Spec2Model ----
(***************************************************************************)
(* Disk-based quorum daemon (cman/qdisk/main.c): the quorum state machine  *)
(* of quorum_init / quorum_loop over one shared disk.                      *)
(*                                                                         *)
(* One action is one whole iteration of a node's loop: read_node_blocks,   *)
(* check_transitions, the score gate, master_exists, the election step,    *)
(* qd_write_status.  Time is counted in intervals (one tick = qc_interval  *)
(* seconds); a node that is not stalled runs one iteration per tick.       *)
(***************************************************************************)
EXTENDS Integers, FiniteSets, Sequences, TLC

(***************************************************************************)
(* Bounds of the model.                                                    *)
(***************************************************************************)
MaxTime == 14
MaxFaults == 1
MaxRuns == 2
MaxInterval == 2
MaxLaps == 2

(* The node ids, one sector of the disk each (MAX_NODES_DISK in main.c);   *)
(* TwoNodes are the nodes of a two-node cluster, whose third sector is     *)
(* never used.                                                             *)
Nodes == {1, 2, 3}

TwoNodes == {1, 2}

(***************************************************************************)
(* disk_node_state_t and the message types.  disk.h is not among the       *)
(* sources; the order NONE < EVICT < INIT < RUN < MASTER is the one        *)
(* state_run (main.c:76-80) and check_transitions case 1 (main.c:206-207)  *)
(* rely on.                                                                *)
(***************************************************************************)
S_NONE == 0
S_EVICT == 1
S_INIT == 2
S_RUN == 5
S_MASTER == 6

M_NONE == 0
M_BID == 1
M_ACK == 2
M_NACK == 3

(***************************************************************************)
(* Configuration, get_config_data: the smallest values the clamps allow.   *)
(***************************************************************************)
qc_tko == 3
qc_tko_up == 2
qc_upgrade_wait == 1
qc_master_wait == 3
qc_scoremin == 0
score_max == 1

(* What an uninitialised memb_mask_t holds: no node id is 0, so {0} stands *)
(* for "any value"; reading a bit of it is a nondeterministic choice.      *)
Garbage == {0}

VARIABLES now, done, stalled, score, cman_up, unreadable, faults, runs,
          rf_reboot, order, disk, pc, x, qc_status, qc_master, qc_incarnation,
          msg, bid_pending, upgrade, mask, master_mask, ni, cman, ret, steady,
          evils, race, death, lap, tally, late, ev

vars == <<now, done, stalled, score, cman_up, unreadable, faults, runs,
          rf_reboot, order, disk, pc, x, qc_status, qc_master, qc_incarnation,
          msg, bid_pending, upgrade, mask, master_mask, ni, cman, ret, steady,
          evils, race, death, lap, tally, late, ev>>

(***************************************************************************)
(* Helpers.                                                                *)
(***************************************************************************)
Min(S) == CHOOSE m \in S : \A k \in S : m <= k

(* main.c:76-80 *)
state_run(state) == IF state >= S_INIT THEN state ELSE 0

(* A status block as qd_write_status lays it out. *)
Block(state, ts, inc, upd, m, msk, mm) ==
    [ps_state |-> state, ps_timestamp |-> ts, ps_incarnation |-> inc,
     ps_updatenode |-> upd, ps_msg |-> m.m_msg, ps_arg |-> m.m_arg,
     ps_seq |-> m.m_seq, ps_mask |-> msk, ps_master_mask |-> mm]

NoMsg == [m_msg |-> M_NONE, m_arg |-> 0, m_seq |-> 0]

(* A sector as the disk is formatted: never written by any node. *)
BlankBlock == Block(S_NONE, 0, 0, 0, NoMsg, {}, {})

(* qd_write_status(ctx, nid, state, msg, mask, master): NULL arguments     *)
(* are written as zeroes; ps_updatenode is the writer.                     *)
qd_write_status(me, inc, state, t, m, msk, mm) ==
    Block(state, t, inc, me, m, msk, mm)

(* main.c:87-99 *)
node_info_init(t) ==
    [n \in Nodes |->
       [ni_status |-> [BlankBlock EXCEPT !.ps_timestamp = t],
        ni_last_seen |-> t, ni_misses |-> 0, ni_seen |-> 0,
        ni_incarnation |-> 0, ni_evil_incarnation |-> 0,
        ni_state |-> S_NONE]]

(* A check_self that never finds a directive to reboot (C7 must notice). *)
NeverEvicted(me, sb) == FALSE

(* main.c:107-124: TRUE when the own block is a directive to reboot. *)
check_self(me, sb) ==
    /\ sb.ps_updatenode # 0
    /\ sb.ps_updatenode # me
    /\ sb.ps_state = S_EVICT

(* A failed read that counts as a miss (C10 must notice). *)
MissOnFailure(n, sb) == [n EXCEPT !.ni_misses = @ + 1]

(* main.c:138-181, one iteration of the loop over x, for a peer. *)
ReadPeerFailed(n, sb) == n

(* A read in which a miss resets the seen counter (C25 must notice). *)
ReadPeerResets(n, sb) ==
    LET n1 == [n EXCEPT !.ni_status = sb] IN
    IF state_run(sb.ps_state) = 0 THEN n1
    ELSE IF sb.ps_timestamp = n.ni_last_seen
         THEN [n1 EXCEPT !.ni_misses = @ + 1, !.ni_seen = 0]
         ELSE [n1 EXCEPT !.ni_misses = 0, !.ni_seen = @ + 1,
                         !.ni_last_seen = sb.ps_timestamp]

ReadPeer(n, sb) ==
    LET n1 == [n EXCEPT !.ni_status = sb] IN
    IF state_run(sb.ps_state) = 0 THEN n1
    ELSE IF sb.ps_timestamp = n.ni_last_seen
         THEN [n1 EXCEPT !.ni_misses = @ + 1]
         ELSE [n1 EXCEPT !.ni_misses = 0, !.ni_seen = @ + 1,
                         !.ni_last_seen = sb.ps_timestamp]

(* main.c:138-181: the node table after reading every sector; `failed` is  *)
(* the set of sectors whose qdisk_read returned an error.                  *)
read_node_blocks(me, nis, dsk, failed) ==
    [n \in Nodes |->
       IF n \in failed THEN ReadPeerFailed(nis[n], dsk[n])
       ELSE IF n = me THEN [nis[n] EXCEPT !.ni_status = dsk[n]]
       ELSE ReadPeer(nis[n], dsk[n])]

(***************************************************************************)
(* check_transitions, main.c:188-369, for one entry of the node table.     *)
(* The result names the case that fired (0 when none did), the entry       *)
(* afterwards, whether the peer's bit is set in the mask and whether an    *)
(* eviction notice is written into the peer's sector.                      *)
(***************************************************************************)
(* A check_transitions whose undead case sets the bit (C35 must notice). *)
TransResultUndeadBit(k, n, b, w) ==
    [case |-> k, n |-> n, bit |-> (b \/ k = 3), write |-> w]

TransResult(k, n, b, w) == [case |-> k, n |-> n, bit |-> b, write |-> w]

(* main.c:206-233 *)
(* A down/restart case that ignores the incarnation (C26 must notice). *)
Case1StateOnly(n) ==
    n.ni_state >= S_EVICT /\ n.ni_status.ps_state <= S_EVICT

Case1Fires(n) ==
    \/ n.ni_state >= S_EVICT /\ n.ni_status.ps_state <= S_EVICT
    \/ n.ni_incarnation # 0 /\ n.ni_incarnation # n.ni_status.ps_incarnation

(* A down/restart case that always forgets the evicted incarnation (C20   *)
(* must notice).                                                          *)
Case1Forgets(n) ==
    [n EXCEPT !.ni_evil_incarnation = 0,
              !.ni_incarnation = 0, !.ni_seen = 0, !.ni_misses = 0,
              !.ni_state = S_NONE]

Case1(n) ==
    [n EXCEPT !.ni_evil_incarnation =
                  IF n.ni_status.ps_state = S_EVICT THEN @ ELSE 0,
              !.ni_incarnation = 0, !.ni_seen = 0, !.ni_misses = 0,
              !.ni_state = S_NONE]

(* A check_transitions without heartbeat timeouts (C15 must notice). *)
NeverTimesOut(n) == FALSE

(* main.c:244-286 *)
Case2Fires(n) ==
    n.ni_misses > qc_tko /\ state_run(n.ni_status.ps_state) # 0

(* A timeout case in which any node writes the notice (C3 must notice). *)
AnyoneWrites(status) == TRUE

Case2Writes(status) == status = S_MASTER

(* A timeout case that does not record the incarnation (C27 must notice). *)
Case2NoEvil(n) ==
    [n EXCEPT !.ni_seen = IF n.ni_status.ps_state >= S_RUN /\ @ # 0
                          THEN 0 ELSE @,
              !.ni_state = S_EVICT,
              !.ni_status.ps_state = S_EVICT]

Case2(n) ==
    [n EXCEPT !.ni_seen = IF n.ni_status.ps_state >= S_RUN /\ @ # 0
                          THEN 0 ELSE @,
              !.ni_state = S_EVICT,
              !.ni_status.ps_state = S_EVICT,
              !.ni_evil_incarnation = n.ni_status.ps_incarnation]

(* A check_transitions without the undead case (C4 must notice). *)
NeverUndead(n) == FALSE

(* main.c:295-316 *)
Case3Fires(n) ==
    /\ n.ni_evil_incarnation # 0
    /\ n.ni_evil_incarnation = n.ni_status.ps_incarnation

(* An undead case that writes no notice (C24 must notice). *)
Case3Silent(status) == FALSE

(* main.c:304-305: written whatever the own state is *)
Case3Writes(status) == TRUE

Case3(n) == [n EXCEPT !.ni_status.ps_state = S_EVICT]

(* A come-up that does not wait for the seen counter (C19 must notice). *)
ComesUpAtOnce(n) == state_run(n.ni_state) = 0

(* main.c:325-342 *)
Case4Fires(n) ==
    n.ni_seen > qc_tko_up /\ state_run(n.ni_state) = 0

Case4(n) ==
    [n EXCEPT !.ni_state = S_RUN,
              !.ni_incarnation = n.ni_status.ps_incarnation]

(* main.c:348-357 *)
Case5Fires(n) ==
    n.ni_state = S_RUN /\ n.ni_status.ps_state = S_MASTER

Case5(n) == [n EXCEPT !.ni_state = S_MASTER]

(* main.c:362-367 *)
Case6Fires(n) == state_run(n.ni_state) # 0

Case6(n) == [n EXCEPT !.ni_state = n.ni_status.ps_state]

(* main.c:196-368: the body of the loop; the first case that matches       *)
(* fires and `continue` skips the rest.                                    *)
TransOne(n, status) ==
    IF Case1Fires(n) THEN TransResult(1, Case1(n), FALSE, FALSE)
    ELSE IF Case2Fires(n)
         THEN TransResult(2, Case2(n), FALSE, Case2Writes(status))
    ELSE IF Case3Fires(n)
         THEN TransResult(3, Case3(n), FALSE, Case3Writes(status))
    ELSE IF Case4Fires(n) THEN TransResult(4, Case4(n), TRUE, FALSE)
    ELSE IF Case5Fires(n) THEN TransResult(5, Case5(n), TRUE, FALSE)
    ELSE IF Case6Fires(n) THEN TransResult(6, Case6(n), TRUE, FALSE)
    ELSE TransResult(0, n, FALSE, FALSE)

(* main.c:188-369 *)
check_transitions(nis, status) ==
    [n \in Nodes |-> TransOne(nis[n], status)]

(***************************************************************************)
(* master_exists, main.c:376-436.                                          *)
(***************************************************************************)
(* A master_exists that sees no master anywhere (C1 must notice). *)
NoMasterSeen(me, nis, n) == FALSE

IsMaster(me, nis, n) ==
    \/ /\ nis[n].ni_state >= S_RUN
       /\ nis[n].ni_status.ps_state = S_MASTER
       /\ n # me
    \/ /\ n = me
       /\ nis[n].ni_status.ps_state = S_MASTER

Masters(me, nis) == {n \in Nodes : IsMaster(me, nis, n)}

(* the return value: the first master in sector order, 0 when none *)
master_exists(me, nis) ==
    IF Masters(me, nis) = {} THEN 0 ELSE Min(Masters(me, nis))

(* *count *)
master_count(me, nis) == Cardinality(Masters(me, nis))

(* A master_exists that reports every node as the lowest id (C14 must     *)
(* notice).                                                               *)
LowIdSelf(me, nis) == me

(* *low_id *)
master_low_id(me, nis) ==
    Min({me} \cup {n \in Nodes : /\ ~IsMaster(me, nis, n)
                                 /\ nis[n].ni_state >= S_RUN})

(***************************************************************************)
(* do_vote, main.c:512-533: the message after voting.                      *)
(***************************************************************************)
LowBidders(me, nis) ==
    {n \in Nodes : /\ nis[n].ni_state = S_RUN
                   /\ nis[n].ni_status.ps_msg = M_BID
                   /\ n < me}

(* An acknowledgement that does not carry the bid's seq (C12 must notice). *)
AckSeqZero(nis, n) == [m_msg |-> M_ACK, m_arg |-> n, m_seq |-> 0]

(* main.c:526-528 and 603-605 *)
AckFor(nis, n) ==
    [m_msg |-> M_ACK, m_arg |-> n, m_seq |-> nis[n].ni_status.ps_seq]

(* A vote for any running bidder, whatever its id (C29 must notice). *)
VoteAnyBidder(me, nis, m) ==
    LET bidders == {n \in Nodes \ {me} : /\ nis[n].ni_state = S_RUN
                                         /\ nis[n].ni_status.ps_msg = M_BID}
    IN IF bidders = {} THEN m ELSE AckFor(nis, Min(bidders))

do_vote(me, nis, m) ==
    IF LowBidders(me, nis) = {} THEN m
    ELSE AckFor(nis, Min(LowBidders(me, nis)))

(***************************************************************************)
(* check_votes, main.c:576-616.                                            *)
(***************************************************************************)
Running(nis) == {n \in Nodes : state_run(nis[n].ni_state) # 0}

Acks(me, nis) ==
    {n \in Running(nis) : /\ nis[n].ni_status.ps_msg = M_ACK
                          /\ nis[n].ni_status.ps_arg = me}

Nacks(me, nis) ==
    {n \in Running(nis) : /\ nis[n].ni_status.ps_msg = M_NACK
                          /\ nis[n].ni_status.ps_arg = me}

(* the running peers with a lower id that are bidding (main.c:600-606) *)
VoteBidders(me, nis) ==
    {n \in Running(nis) : nis[n].ni_status.ps_msg = M_BID /\ n < me}

(* A check_votes that always reports a won bid (C5 must notice). *)
AlwaysWon(me, nis) == 3

(* the return value, main.c:609-615 *)
check_votes(me, nis) ==
    IF Cardinality(Acks(me, nis)) = Cardinality(Running(nis)) THEN 3
    ELSE IF Nacks(me, nis) # {} THEN 2
    ELSE IF VoteBidders(me, nis) # {} THEN 1
    ELSE 0

(* A check_votes that leaves *msg alone (C30 must notice). *)
VotesKeepMsg(me, nis, m) == m

(* *msg afterwards, main.c:600-606 *)
check_votes_msg(me, nis, m) ==
    IF VoteBidders(me, nis) = {} THEN m
    ELSE AckFor(nis, Min(VoteBidders(me, nis)))

(***************************************************************************)
(* quorum_loop, main.c:792-1040.  The locals of the loop that survive an   *)
(* iteration are kept in a record c = [qc_status, msg, bid_pending,        *)
(* upgrade].                                                               *)
(***************************************************************************)
Ctx(st, m, bp, up) ==
    [qc_status |-> st, msg |-> m, bid_pending |-> bp, upgrade |-> up]

(* A required score that ignores min_score (C32 must notice). *)
ScoreReqHalf(scoremin, smax) == (smax \div 2) + 1

(* main.c:834-836 *)
ScoreReq(scoremin, smax) ==
    IF scoremin <= 0 THEN (smax \div 2) + 1 ELSE scoremin

(* main.c:831-832 *)
DecUpgrade(c) ==
    [c EXCEPT !.upgrade = IF @ > 0 THEN @ - 1 ELSE @]

(* A score gate that leaves the state alone (C2 must notice). *)
KeepState(c) == c

(* main.c:838-858: the score is insufficient *)
(* A downgrade that keeps the message (C31 must notice). *)
DowngradeKeepsMsg(c) ==
    IF c.qc_status > S_NONE
    THEN [c EXCEPT !.qc_status = S_NONE, !.bid_pending = 0]
    ELSE c

Downgrade(c) ==
    IF c.qc_status > S_NONE
    THEN [c EXCEPT !.qc_status = S_NONE, !.msg.m_msg = M_NONE,
                   !.msg.m_seq = @ + 1, !.bid_pending = 0]
    ELSE c

(* A promotion that starts no upgrade_wait (C22 must notice). *)
UpgradeNoWait(c) ==
    IF c.qc_status = S_NONE
    THEN [c EXCEPT !.qc_status = S_RUN, !.upgrade = 0,
                   !.bid_pending = 0, !.msg.m_msg = M_NONE,
                   !.msg.m_seq = @ + 1]
    ELSE c

(* main.c:859-873: the score is sufficient *)
Upgrade(c) ==
    IF c.qc_status = S_NONE
    THEN [c EXCEPT !.qc_status = S_RUN, !.upgrade = qc_upgrade_wait,
                   !.bid_pending = 0, !.msg.m_msg = M_NONE,
                   !.msg.m_seq = @ + 1]
    ELSE c

(* main.c:830-873 *)
ScoreGate(c, sc, req) ==
    IF sc < req THEN Downgrade(DecUpgrade(c)) ELSE Upgrade(DecUpgrade(c))

(* A conflict check that makes every master of a conflict abdicate (C36   *)
(* must notice).                                                          *)
ConflictAll(c, me, master, count) ==
    count >= 2 /\ c.qc_status = S_MASTER

(* A conflict check that never finds a conflict (C8 must notice). *)
NeverConflict(c, me, master, count) == FALSE

(* main.c:879-880 *)
Conflict(c, me, master, count) ==
    count >= 1 /\ c.qc_status = S_MASTER /\ master # me

(* main.c:881-888 *)
Abdicate(c) ==
    [c EXCEPT !.qc_status = S_RUN, !.upgrade = qc_upgrade_wait,
              !.bid_pending = 0, !.msg.m_msg = M_NONE, !.msg.m_seq = @ + 1]

(* main.c:876-889 *)
ResolveConflict(c, me, master, count) ==
    IF Conflict(c, me, master, count) THEN Abdicate(c) ELSE c

(* A chain whose bid arm does not wait for upgrade (C28 must notice). *)
BranchNoWait(c, me, master, low_id) ==
    IF /\ master = 0 /\ low_id = me /\ c.qc_status = S_RUN
       /\ c.bid_pending = 0 THEN 1
    ELSE IF master = 0 /\ c.bid_pending = 0 THEN 2
    ELSE IF master = 0 /\ c.bid_pending # 0 THEN 3
    ELSE IF c.qc_status = S_MASTER /\ master # me THEN 4
    ELSE IF c.qc_status = S_MASTER /\ master = me THEN 5
    ELSE IF c.qc_status = S_RUN /\ master # 0 /\ master # me THEN 6
    ELSE 0

(* main.c:892-987: which arm of the if/else-if chain is taken *)
Branch(c, me, master, low_id) ==
    IF /\ master = 0 /\ low_id = me /\ c.qc_status = S_RUN
       /\ c.bid_pending = 0 /\ c.upgrade = 0 THEN 1
    ELSE IF master = 0 /\ c.bid_pending = 0 THEN 2
    ELSE IF master = 0 /\ c.bid_pending # 0 THEN 3
    ELSE IF c.qc_status = S_MASTER /\ master # me THEN 4
    ELSE IF c.qc_status = S_MASTER /\ master = me THEN 5
    ELSE IF c.qc_status = S_RUN /\ master # 0 /\ master # me THEN 6
    ELSE 0

(* A node that never makes its bid (C6 must notice). *)
NoBid(c) == c

(* A bid that does not advance seq (C33 must notice). *)
MakeBidSameSeq(c) ==
    [c EXCEPT !.msg.m_msg = M_BID, !.bid_pending = 1]

(* main.c:904-907 *)
MakeBid(c) ==
    [c EXCEPT !.msg.m_msg = M_BID, !.msg.m_seq = @ + 1, !.bid_pending = 1]

(* A bid that is won as soon as it is acknowledged (C23 must notice). *)
ResolveBidAtOnce(c, votes, m1) ==
    IF votes = 3
    THEN [c EXCEPT !.qc_status = S_MASTER,
                   !.msg = [m1 EXCEPT !.m_msg = M_NONE],
                   !.bid_pending = 0]
    ELSE IF votes = 2
    THEN [c EXCEPT !.msg = [m1 EXCEPT !.m_msg = M_NONE], !.bid_pending = 0]
    ELSE IF votes = 1
    THEN [c EXCEPT !.msg = m1, !.bid_pending = 0]
    ELSE [c EXCEPT !.msg = m1, !.bid_pending = c.bid_pending + 1]

(* A switch without fallthrough from case 3 and 2 into case 1: a won or    *)
(* nacked bid stays pending (C34 must notice).                             *)
ResolveBidNoFall(c, votes, m1) ==
    LET bp == c.bid_pending + 1 IN
    IF votes = 3
    THEN IF bp < qc_master_wait
         THEN [c EXCEPT !.bid_pending = bp, !.msg = m1]
         ELSE [c EXCEPT !.qc_status = S_MASTER,
                        !.msg = [m1 EXCEPT !.m_msg = M_NONE],
                        !.bid_pending = bp]
    ELSE IF votes = 2
    THEN [c EXCEPT !.msg = [m1 EXCEPT !.m_msg = M_NONE], !.bid_pending = bp]
    ELSE IF votes = 1
    THEN [c EXCEPT !.msg = m1, !.bid_pending = 0]
    ELSE [c EXCEPT !.msg = m1, !.bid_pending = bp]

(* main.c:919-940: the switch on check_votes, with its fallthroughs *)
ResolveBid(c, votes, m1) ==
    LET bp == c.bid_pending + 1 IN
    IF votes = 3
    THEN IF bp < qc_master_wait
         THEN [c EXCEPT !.bid_pending = bp, !.msg = m1]
         ELSE [c EXCEPT !.qc_status = S_MASTER,
                        !.msg = [m1 EXCEPT !.m_msg = M_NONE],
                        !.bid_pending = 0]
    ELSE IF votes = 2
    THEN [c EXCEPT !.msg = [m1 EXCEPT !.m_msg = M_NONE], !.bid_pending = 0]
    ELSE IF votes = 1
    THEN [c EXCEPT !.msg = m1, !.bid_pending = 0]
    ELSE [c EXCEPT !.msg = m1, !.bid_pending = bp]

(* main.c:892-940: the election arms *)
Elect(c, me, nis, br) ==
    IF br = 1 THEN MakeBid(c)
    ELSE IF br = 2 THEN [c EXCEPT !.msg = do_vote(me, nis, c.msg)]
    ELSE IF br = 3
    THEN ResolveBid(c, check_votes(me, nis), check_votes_msg(me, nis, c.msg))
    ELSE c

(* main.c:540-562: the master mask after a successful cman_get_nodes *)
check_cman(msk, members) == msk \cap members

(* main.c:974-977: is_bit_set on the master's published mask; `g` is the   *)
(* value of the bit when that mask was never initialised                   *)
MasterSaysOnline(mm, me, g) == IF mm = Garbage THEN g ELSE me \in mm

(* A loop that polls cman in every arm (C13 must notice). *)
AlwaysPolls(br, online) == TRUE

(* main.c:952-987: the arms that call cman_alive *)
NeedsCman(br, online) == br = 5 \/ (br = 6 /\ online)

(* A main that unregisters whatever quorum_loop returns (C9 must notice). *)
AlwaysUnregisters(loop_rv) == TRUE

(* main.c:1643-1674: what main does with quorum_loop's return value *)
MainUnregisters(loop_rv) == loop_rv = 0

MainRet(loop_rv) == 0

(***************************************************************************)
(* The state machine.                                                      *)
(***************************************************************************)
Alive(i) == pc[i] \in {"init", "loop"}

(* The nodes wake up once per interval, each at its own offset within the  *)
(* interval: order[i] is the position of node i within a tick.             *)
Orders(cl) ==
    {o \in [Nodes -> 1..Cardinality(Nodes)] :
        /\ \A i, j \in Nodes : i # j => o[i] # o[j]
        /\ \A i \in Nodes \ cl : o[i] = i}

(* node i is the next to wake up in this tick *)
Turn(i) ==
    /\ ~stalled[i]
    /\ ~done[i]
    /\ \A j \in Nodes :
          Alive(j) /\ ~stalled[j] /\ order[j] < order[i] => done[j]

(* cman's member list (cman_get_nodes): the nodes whose cman is up *)
Members == {n \in Nodes : cman_up[n]}

(* ctx->qc_incarnation: a value no other run of any node has *)
Incarnation(i, run) == 10 * run + i

(* What the last step did; the claims are stated over it. *)
Ev(kind, i) ==
    [kind |-> kind, node |-> i, status0 |-> S_NONE, low |-> FALSE,
     wrote |-> -1, cases |-> [n \in Nodes |-> 0], evicts |-> {},
     up |-> {}, won |-> FALSE, reboot |-> FALSE, own |-> BlankBlock,
     others |-> {}, mstatus |-> S_NONE, master |-> 0, abdicated |-> FALSE,
     branch |-> 0, alive |-> "none", halted |-> FALSE, failed |-> {},
     misses0 |-> [n \in Nodes |-> 0], seen0 |-> [n \in Nodes |-> 0],
     last0 |-> [n \in Nodes |-> 0], evil0 |-> [n \in Nodes |-> 0],
     unreg |-> FALSE, evicted |-> FALSE, seq0 |-> 0, vote |-> -1,
     online |-> FALSE]

(* Steady state: every node that takes part has finished quorum_init, has  *)
(* sufficient score and local state RUN or MASTER, and tracks every other  *)
(* such node as RUN or MASTER; the other nodes are down or are ineligible. *)
Participant(i) == pc[i] = "loop" /\ qc_status[i] >= S_RUN

Bystander(i) ==
    \/ ~Alive(i)
    \/ pc[i] = "loop" /\ qc_status[i] = S_NONE /\ score[i] = 0

SteadyCond ==
    /\ \A i \in Nodes :
          \/ Bystander(i)
          \/ /\ Participant(i)
             /\ ~stalled[i]
             /\ unreadable[i] = {}
             /\ score[i] = 1
             /\ \A j \in Nodes \ {i} :
                   Participant(j) => ni[i][j].ni_state >= S_RUN
    /\ Cardinality({i \in Nodes : Participant(i)}) >= 2

(* An election race: `promo` are the nodes that went from NONE to RUN in   *)
(* the current tick; when they are all the nodes that are running and no   *)
(* block says MASTER, the race is on from tick t0 among `nodes`, and `won` *)
(* tells whether one of them has become MASTER.  A node that starts,       *)
(* stalls, fails or loses score calls the race off.                        *)
NoRace == [promo |-> {}, t0 |-> -1, nodes |-> {}, won |-> FALSE]

RaceStarts ==
    /\ race.promo # {}
    /\ race.promo = {i \in Nodes : Alive(i)}
    /\ \A n \in Nodes : disk[n].ps_state # S_MASTER
    /\ \A i \in race.promo : ~stalled[i]

RaceStep(i, st0, st1) ==
    [race EXCEPT
       !.promo = IF st0 = S_NONE /\ st1 = S_RUN THEN @ \cup {i} ELSE @,
       !.won = @ \/ (race.t0 >= 0 /\ i \in race.nodes /\ st1 = S_MASTER)]

(* The state when the first qdiskd is about to start: a freshly formatted  *)
(* disk, every node down.  `scores` are the heuristic scores the nodes may *)
(* have at that moment, `reboots` the settings of reboot= in the cluster   *)
(* configuration.                                                          *)
NoDeath == [master |-> 0, bid |-> -1, bidder |-> 0]

(* The timing of a cycle is not followed: every cycle takes less than an   *)
(* interval.                                                               *)
(* What a node has done since it last went from NONE to RUN or abdicated:  *)
(* `cycles` counts the cycles of quorum_loop from that one on, `bid` the   *)
(* cycles from its bid on, and `acks` the latest consecutive cycles in     *)
(* which check_votes found its bid acknowledged by every running peer.     *)
(* The counts are kept only in the specifications that start with TallyOn. *)
NoTally == [i \in Nodes |-> [cycles |-> -1, bid |-> 0, acks |-> 0]]

TallyOn == [i \in Nodes |-> [cycles |-> 0, bid |-> 0, acks |-> 0]]

Tally(t, c0, c1, c2, br, votes) ==
    IF t.cycles < 0 THEN t
    ELSE IF c1.qc_status = S_NONE THEN [cycles |-> 0, bid |-> 0, acks |-> 0]
    ELSE LET cap == qc_upgrade_wait + qc_master_wait + 1 IN
    IF (c0.qc_status = S_NONE /\ c1.qc_status = S_RUN)
       \/ c2.qc_status # c1.qc_status
    THEN [cycles |-> 1, bid |-> 0, acks |-> 0]
    ELSE [cycles |-> Min({t.cycles + 1, cap}),
          bid |-> IF br = 1 THEN 1
                  ELSE IF br = 3 THEN Min({t.bid + 1, cap})
                  ELSE IF br = 2 THEN 0
                  ELSE t.bid,
          acks |-> IF br = 3 /\ votes = 3
                   THEN Min({t.acks + 1, cap}) ELSE 0]

NoLap == [pc |-> "off"]

InitTimed(scores, reboots, cl, laps, tallies) ==
    /\ now = 0
    /\ done = [i \in Nodes |-> FALSE]
    /\ stalled = [i \in Nodes |-> FALSE]
    /\ score \in scores
    /\ cman_up = [i \in Nodes |-> TRUE]
    /\ unreadable = [i \in Nodes |-> {}]
    /\ faults = MaxFaults
    /\ runs = [i \in Nodes |-> 0]
    /\ rf_reboot \in reboots
    /\ order \in Orders(cl)
    /\ disk = [n \in Nodes |-> BlankBlock]
    /\ pc = [i \in Nodes |-> "off"]
    /\ x = [i \in Nodes |-> 0]
    /\ qc_status = [i \in Nodes |-> S_NONE]
    /\ qc_master = [i \in Nodes |-> 0]
    /\ qc_incarnation = [i \in Nodes |-> 0]
    /\ msg = [i \in Nodes |-> NoMsg]
    /\ bid_pending = [i \in Nodes |-> 0]
    /\ upgrade = [i \in Nodes |-> 0]
    /\ mask = [i \in Nodes |-> {}]
    /\ master_mask = [i \in Nodes |-> Garbage]
    /\ ni = [i \in Nodes |-> node_info_init(0)]
    /\ cman = [i \in Nodes |-> [registered |-> FALSE, vote |-> 0]]
    /\ ret = [i \in Nodes |-> -1]
    /\ steady = FALSE
    /\ evils = [i \in Nodes |-> [n \in Nodes |-> {}]]
    /\ race = NoRace
    /\ death = NoDeath
    /\ lap \in laps
    /\ tally \in tallies
    /\ late = {}
    /\ ev = Ev("none", 0)

InitWith(scores, reboots, cl) ==
    InitTimed(scores, reboots, cl, {NoLap}, {NoTally})

(* An initialisation block that claims RUN and bids (C21 must notice). *)
InitBlockBids(me, inc, t) ==
    qd_write_status(me, inc, S_RUN, t, [NoMsg EXCEPT !.m_msg = M_BID], {}, {})

(* main.c:476-477 and 486-487: the block quorum_init writes *)
InitBlock(me, inc, t) ==
    qd_write_status(me, inc, S_INIT, t, NoMsg, {}, {})

(* main.c:1580-1637 and quorum_init up to its first write, main.c:474-480 *)
Start(i) ==
    /\ pc[i] \in {"off", "dead", "exited"}
    /\ runs[i] < MaxRuns
    /\ runs' = [runs EXCEPT ![i] = @ + 1]
    /\ qc_incarnation' = [qc_incarnation EXCEPT ![i] = Incarnation(i, runs'[i])]
    /\ ni' = [ni EXCEPT ![i] = node_info_init(now)]
    /\ qc_status' = [qc_status EXCEPT ![i] = S_INIT]
    /\ disk' = [disk EXCEPT ![i] = InitBlock(i, qc_incarnation'[i], now)]
    /\ pc' = [pc EXCEPT ![i] = "init"]
    /\ x' = [x EXCEPT ![i] = 0]
    /\ done' = [done EXCEPT ![i] = FALSE]
    /\ stalled' = [stalled EXCEPT ![i] = FALSE]
    /\ cman_up' = [cman_up EXCEPT ![i] = TRUE]
    /\ cman' = [cman EXCEPT ![i] = [registered |-> FALSE, vote |-> 0]]
    /\ qc_master' = [qc_master EXCEPT ![i] = 0]
    /\ msg' = [msg EXCEPT ![i] = NoMsg]
    /\ bid_pending' = [bid_pending EXCEPT ![i] = 0]
    /\ upgrade' = [upgrade EXCEPT ![i] = 0]
    /\ mask' = [mask EXCEPT ![i] = {}]
    /\ master_mask' = [master_mask EXCEPT ![i] = Garbage]
    /\ ret' = [ret EXCEPT ![i] = -1]
    /\ evils' = [evils EXCEPT ![i] = [n \in Nodes |-> {}]]
    /\ steady' = FALSE
    /\ race' = NoRace
    /\ ev' = [Ev("start", i) EXCEPT !.wrote = S_INIT]
    /\ tally' = [tally EXCEPT ![i] = IF @.cycles < 0 THEN @ ELSE TallyOn[i]]
    /\ UNCHANGED <<now, score, unreadable, faults, rf_reboot, order, death,
                   lap, late>>

(* The eviction notices check_transitions writes, main.c:254 and 304 *)
WithEvictions(dsk, i, tr, t) ==
    [n \in Nodes |->
       IF tr[n].write
       THEN qd_write_status(i, qc_incarnation[i], S_EVICT, t, NoMsg, {}, {})
       ELSE dsk[n]]

(* check_self, reached from read_node_blocks when the own sector is read *)
SelfEvicted(i) == i \notin unreadable[i] /\ check_self(i, disk[i])

(* what a cycle records about the reads and transitions it made *)
EvRead(kind, i, st0, tr) ==
    [Ev(kind, i) EXCEPT
       !.status0 = st0,
       !.own = disk[i],
       !.cases = [n \in Nodes |-> tr[n].case],
       !.evicts = {n \in Nodes : tr[n].write},
       !.up = {n \in Nodes : tr[n].case = 4},
       !.failed = unreadable[i],
       !.misses0 = [n \in Nodes |-> ni[i][n].ni_misses],
       !.seen0 = [n \in Nodes |-> ni[i][n].ni_seen],
       !.last0 = [n \in Nodes |-> ni[i][n].ni_last_seen],
       !.evil0 = [n \in Nodes |-> ni[i][n].ni_evil_incarnation]]

NewEvils(i, tr) ==
    [n \in Nodes |->
       IF tr[n].case = 2
       THEN evils[i][n] \cup {tr[n].n.ni_evil_incarnation}
       ELSE evils[i][n]]

(* reboot(RB_AUTOBOOT): the process is gone *)
Reboot(i, e) ==
    /\ pc' = [pc EXCEPT ![i] = "dead"]
    /\ done' = [done EXCEPT ![i] = TRUE]
    /\ ev' = [e EXCEPT !.reboot = TRUE]
    /\ steady' = FALSE
    /\ race' = NoRace

(* One iteration of the loop of quorum_init, main.c:482-499 *)
InitCycle(i) ==
    /\ pc[i] = "init"
    /\ x[i] < qc_tko
    /\ Turn(i)
    /\ \E tr \in {check_transitions(
                     read_node_blocks(i, ni[i], disk, unreadable[i]),
                     qc_status[i])} :
       LET e == EvRead("init", i, qc_status[i], tr)
       IN IF SelfEvicted(i)
          THEN /\ Reboot(i, [Ev("init", i) EXCEPT !.own = disk[i],
                                                  !.status0 = qc_status[i],
                                                  !.failed = unreadable[i],
                                                  !.evicted = TRUE])
               /\ UNCHANGED <<disk, ni, x, evils>>
          ELSE /\ ni' = [ni EXCEPT ![i] = [n \in Nodes |-> tr[n].n]]
               /\ disk' = [WithEvictions(disk, i, tr, now) EXCEPT ![i] =
                             InitBlock(i, qc_incarnation[i], now)]
               /\ x' = [x EXCEPT ![i] = @ + 1]
               /\ evils' = [evils EXCEPT ![i] = NewEvils(i, tr)]
               /\ done' = [done EXCEPT ![i] = TRUE]
               /\ ev' = [e EXCEPT !.wrote = S_INIT]
               /\ steady' = FALSE
               /\ UNCHANGED <<pc, race>>
    /\ UNCHANGED <<now, stalled, score, cman_up, unreadable, faults, runs,
                   rf_reboot, order, qc_status, qc_master, qc_incarnation, msg,
                   bid_pending, upgrade, mask, master_mask, cman, ret, death,
                   lap, tally, late>>

(* A logout that writes nothing (C16 must notice). *)
LogoutSilent(dsk, me, inc, t) == dsk

(* quorum_logout, main.c:1046-1056: the disk afterwards *)
quorum_logout(dsk, me, inc, t) ==
    [dsk EXCEPT ![me] = qd_write_status(me, inc, S_NONE, t, NoMsg, {}, {})]

(* quorum_logout, main.c:1046-1056, and the end of main, main.c:1665-1674 *)
Leave(i, dsk, loop_rv) ==
    /\ disk' = quorum_logout(dsk, i, qc_incarnation[i], now)
    /\ pc' = [pc EXCEPT ![i] = "exited"]
    /\ ret' = [ret EXCEPT ![i] = MainRet(loop_rv)]

(* The loss of a master: `master` is the master that stalled or lost its   *)
(* score, `bidder` the first node to bid for its succession and `bid` the  *)
(* tick of that bid.                                                       *)
BidAfterDeath(i, br) ==
    IF death.master # 0 /\ death.bid < 0 /\ br = 1
    THEN [death EXCEPT !.bid = now, !.bidder = i]
    ELSE death

(* One iteration of the loop of quorum_loop, main.c:817-1037; the first    *)
(* one also runs the entry of quorum_loop, main.c:795-816, and the         *)
(* cman_register_quorum_device of main, main.c:1648.                       *)
LoopCycleTo(i, hangs) ==
    /\ \/ pc[i] = "loop"
       \/ pc[i] = "init" /\ x[i] = qc_tko
    /\ Turn(i)
    /\ hangs => faults > 0
    /\ faults' = IF hangs THEN faults - 1 ELSE faults
    /\ stalled' = IF hangs THEN [stalled EXCEPT ![i] = TRUE] ELSE stalled
    /\ late' = IF hangs THEN late \cup {i} ELSE late
    /\ UNCHANGED <<now, score, cman_up, unreadable, runs, rf_reboot, order,
                   qc_incarnation, lap>>
    /\ \E g \in BOOLEAN :
       \E first \in {pc[i] = "init"} :
       \E c0 \in {IF first THEN Ctx(S_NONE, NoMsg, 0, 0)
                  ELSE Ctx(qc_status[i], msg[i], bid_pending[i], upgrade[i])} :
       \E tr \in {check_transitions(
                     read_node_blocks(i, ni[i], disk, unreadable[i]),
                     c0.qc_status)} :
       \E nis2 \in {[n \in Nodes |-> tr[n].n]} :
       \E req \in {ScoreReq(qc_scoremin, score_max)} :
       \E c1 \in {ScoreGate(c0, score[i], req)} :
       \E master \in {master_exists(i, nis2)} :
       \E count \in {master_count(i, nis2)} :
       \E c2 \in {ResolveConflict(c1, i, master, count)} :
       \E br \in {Branch(c2, i, master, master_low_id(i, nis2))} :
       \E c3 \in {Elect(c2, i, nis2, br)} :
       LET mm0 == IF first THEN Garbage ELSE master_mask[i]
           msk0 == {n \in Nodes : tr[n].bit}
           low == score[i] < req
           msk == IF low THEN msk0 \ {i} ELSE msk0 \cup {i}
           degraded == low /\ c0.qc_status > S_NONE
           online == br = 6 /\ MasterSaysOnline(
                        nis2[master].ni_status.ps_master_mask, i, g)
           usesg == br = 6 /\ nis2[master].ni_status.ps_master_mask = Garbage
           polls == NeedsCman(br, online)
           halt == polls /\ ~cman_up[i]
           mm == IF br = 5 /\ ~halt THEN check_cman(msk, Members) ELSE mm0
           vote == IF polls /\ ~halt THEN 1
                   ELSE IF degraded /\ cman_up[i] THEN 0
                   ELSE IF first THEN 0 ELSE cman[i].vote
           dsk1 == WithEvictions(disk, i, tr, now)
           e == [EvRead("loop", i, c0.qc_status, tr) EXCEPT
                   !.low = low,
                   !.seq0 = c0.msg.m_seq,
                   !.vote = IF polls /\ ~halt THEN 1
                            ELSE IF degraded /\ cman_up[i] THEN 0
                            ELSE -1,
                   !.online = online,
                   !.won = br = 3 /\ c3.qc_status = S_MASTER,
                   !.others = Masters(i, nis2) \ {i},
                   !.mstatus = c1.qc_status,
                   !.master = master,
                   !.abdicated = Conflict(c1, i, master, count),
                   !.branch = br,
                   !.alive = IF polls \/ degraded
                             THEN (IF cman_up[i] THEN "ok" ELSE "fail")
                             ELSE "none",
                   !.halted = halt]
       IN /\ (g => usesg)
          /\ hangs => ~SelfEvicted(i) /\ ~(degraded /\ rf_reboot) /\ ~halt
          /\ IF SelfEvicted(i)
             THEN /\ Reboot(i, [Ev("loop", i) EXCEPT !.own = disk[i],
                                          !.status0 = c0.qc_status,
                                          !.failed = unreadable[i],
                                          !.evicted = TRUE])
                  /\ UNCHANGED <<disk, ni, qc_status, qc_master, msg,
                                 bid_pending, upgrade, mask, master_mask,
                                 cman, ret, evils, x, death, tally>>
             ELSE /\ ni' = [ni EXCEPT ![i] = nis2]
                  /\ death' = BidAfterDeath(i, br)
                  /\ tally' = [tally EXCEPT ![i] =
                        Tally(@, c0, c1, c2, br, check_votes(i, nis2))]
                  /\ evils' = [evils EXCEPT ![i] = NewEvils(i, tr)]
                  /\ x' = [x EXCEPT ![i] = qc_tko]
                  /\ qc_status' = [qc_status EXCEPT ![i] = c3.qc_status]
                  /\ msg' = [msg EXCEPT ![i] = c3.msg]
                  /\ bid_pending' = [bid_pending EXCEPT ![i] = c3.bid_pending]
                  /\ upgrade' = [upgrade EXCEPT ![i] = c3.upgrade]
                  /\ qc_master' = [qc_master EXCEPT ![i] = master]
                  /\ mask' = [mask EXCEPT ![i] = msk]
                  /\ master_mask' = [master_mask EXCEPT ![i] = mm]
                  /\ cman' = [cman EXCEPT ![i] =
                                [registered |-> TRUE, vote |-> vote]]
                  /\ IF degraded /\ rf_reboot
                     THEN /\ disk' = dsk1
                          /\ Reboot(i, e)
                          /\ UNCHANGED ret
                     ELSE IF halt
                     THEN /\ Leave(i, dsk1, -1)
                          /\ done' = [done EXCEPT ![i] = TRUE]
                          /\ ev' = [e EXCEPT !.wrote = S_NONE,
                                      !.unreg = MainUnregisters(-1)]
                          /\ steady' = FALSE
                          /\ race' = NoRace
                     ELSE /\ disk' = IF hangs THEN dsk1
                                     ELSE [dsk1 EXCEPT ![i] =
                                qd_write_status(i, qc_incarnation[i],
                                    c3.qc_status, now, c3.msg, msk, mm)]
                          /\ pc' = [pc EXCEPT ![i] = "loop"]
                          /\ done' = [done EXCEPT ![i] = TRUE]
                          /\ ev' = IF hangs THEN e
                                   ELSE [e EXCEPT !.wrote = c3.qc_status]
                          /\ steady' = (~hangs /\ (steady \/ SteadyCond'))
                          /\ race' = IF hangs THEN NoRace
                                     ELSE RaceStep(i, c0.qc_status,
                                                   c3.qc_status)
                          /\ UNCHANGED ret

LoopCycle(i) ==
    /\ Alive(i)
    /\ LoopCycleTo(i, FALSE)

(* The process hangs between the reads of a cycle and the write of its own *)
(* status block, main.c:822-990 (a blocking call to cman, or the I/O).     *)
StallInCycle(i) ==
    /\ faults > 0
    /\ LoopCycleTo(i, TRUE)

(* The hung process goes on: the write of main.c:990-993 comes now, and    *)
(* the sleep of the cycle after it.                                        *)
ResumeWrite(i) ==
    /\ stalled[i]
    /\ i \in late
    /\ stalled' = [stalled EXCEPT ![i] = FALSE]
    /\ late' = late \ {i}
    /\ disk' = [disk EXCEPT ![i] =
                  qd_write_status(i, qc_incarnation[i], qc_status[i], now,
                                  msg[i], mask[i], master_mask[i])]
    /\ done' = [done EXCEPT ![i] = TRUE]
    /\ steady' = FALSE
    /\ race' = NoRace
    /\ ev' = [Ev("late", i) EXCEPT !.wrote = qc_status[i]]
    /\ UNCHANGED <<now, score, cman_up, unreadable, faults, runs, rf_reboot,
                   order, pc, x, qc_status, qc_master, qc_incarnation, msg,
                   bid_pending, upgrade, mask, master_mask, ni, cman, ret,
                   evils, death, lap, tally>>

(* int_handler, main.c:66-70: SIGINT or SIGTERM ends the loop; main then   *)
(* unregisters the quorum device and logs out (main.c:1645-1668)           *)
Terminate(i) ==
    /\ Alive(i)
    /\ ~stalled[i]
    /\ faults > 0
    /\ faults' = faults - 1
    /\ IF pc[i] = "init"
       THEN /\ pc' = [pc EXCEPT ![i] = "exited"]
            /\ ret' = [ret EXCEPT ![i] = 0]
            /\ ev' = Ev("term", i)
            /\ UNCHANGED <<disk, cman>>
       ELSE /\ Leave(i, disk, 0)
            /\ cman' = [cman EXCEPT ![i].registered =
                          IF MainUnregisters(0) THEN FALSE ELSE @]
            /\ ev' = [Ev("term", i) EXCEPT !.wrote = S_NONE,
                                           !.unreg = MainUnregisters(0)]
    /\ steady' = FALSE
    /\ race' = NoRace
    /\ UNCHANGED <<now, done, stalled, score, cman_up, unreadable, runs,
                   rf_reboot, order, x, qc_status, qc_master, qc_incarnation, msg,
                   bid_pending, upgrade, mask, master_mask, ni, evils, death,
                   lap, tally, late>>

(* One interval passes: the sleep at main.c:1035-1036 and main.c:498 *)
Tick ==
    /\ now < MaxTime
    /\ \E i \in Nodes : Alive(i)
    /\ \A i \in Nodes : Alive(i) /\ ~stalled[i] => done[i]
    /\ now' = now + 1
    /\ done' = [i \in Nodes |-> FALSE]
    /\ steady' = (steady /\ \A i \in Nodes : Alive(i) => ~stalled[i])
    /\ race' = IF RaceStarts
               THEN [promo |-> {}, t0 |-> now, nodes |-> race.promo,
                     won |-> FALSE]
               ELSE [race EXCEPT !.promo = {}]
    /\ ev' = Ev("tick", 0)
    /\ UNCHANGED <<stalled, score, cman_up, unreadable, faults, runs,
                   rf_reboot, order, disk, pc, x, qc_status, qc_master,
                   qc_incarnation, msg, bid_pending, upgrade, mask,
                   master_mask, ni, cman, ret, evils, death, lap, tally,
                   late>>

(***************************************************************************)
(* The environment: what the disk, the scheduler, the heuristics and cman  *)
(* can do to a node.  At most MaxFaults of these happen in a run.          *)
(***************************************************************************)
EnvQuiet ==
    /\ race' = NoRace
    /\ UNCHANGED <<now, done, runs, rf_reboot, order, disk, pc, x, qc_status,
                   qc_master, qc_incarnation, msg, bid_pending, upgrade, mask,
                   master_mask, ni, cman, ret, evils, lap, tally, late>>

EnvUnchanged ==
    /\ EnvQuiet
    /\ UNCHANGED death

(* the process is not scheduled, or its I/O hangs *)
Stalls(i) ==
    /\ Alive(i) /\ ~stalled[i]
    /\ faults > 0
    /\ faults' = faults - 1
    /\ stalled' = [stalled EXCEPT ![i] = TRUE]
    /\ steady' = FALSE
    /\ ev' = Ev("fault", i)
    /\ UNCHANGED <<score, cman_up, unreadable>>
    /\ EnvQuiet

Stall(i) ==
    /\ Stalls(i)
    /\ UNCHANGED death

(* the master stalls while every node of the cluster is in steady state *)
StallMaster(i) ==
    /\ steady
    /\ \A j \in Nodes : Participant(j)
    /\ qc_status[i] = S_MASTER
    /\ Stalls(i)
    /\ death' = [NoDeath EXCEPT !.master = i]

Resume(i) ==
    /\ stalled[i]
    /\ i \notin late
    /\ stalled' = [stalled EXCEPT ![i] = FALSE]
    /\ steady' = FALSE
    /\ ev' = Ev("fault", i)
    /\ UNCHANGED <<score, cman_up, unreadable, faults>>
    /\ EnvUnchanged

(* get_my_score: the heuristics thread publishes a new score *)
ScoreDrops(i) ==
    /\ score[i] = 1
    /\ faults > 0
    /\ faults' = faults - 1
    /\ score' = [score EXCEPT ![i] = 0]
    /\ steady' = FALSE
    /\ ev' = Ev("fault", i)
    /\ UNCHANGED <<stalled, cman_up, unreadable>>
    /\ EnvQuiet

ScoreDrop(i) ==
    /\ ScoreDrops(i)
    /\ UNCHANGED death

(* the score of the current master drops *)
ScoreDropMaster(i) ==
    /\ pc[i] = "loop"
    /\ qc_status[i] = S_MASTER
    /\ ScoreDrops(i)
    /\ death' = [NoDeath EXCEPT !.master = i]

ScoreUp(i) ==
    /\ score[i] = 0
    /\ score' = [score EXCEPT ![i] = 1]
    /\ steady' = FALSE
    /\ ev' = Ev("fault", i)
    /\ UNCHANGED <<stalled, cman_up, unreadable, faults>>
    /\ EnvUnchanged

(* qdisk_read of sector n starts failing on node i *)
ReadBreak(i, n) ==
    /\ Alive(i)
    /\ n \notin unreadable[i]
    /\ faults > 0
    /\ faults' = faults - 1
    /\ unreadable' = [unreadable EXCEPT ![i] = @ \cup {n}]
    /\ steady' = FALSE
    /\ ev' = Ev("fault", i)
    /\ UNCHANGED <<stalled, score, cman_up>>
    /\ EnvUnchanged

ReadFix(i, n) ==
    /\ n \in unreadable[i]
    /\ unreadable' = [unreadable EXCEPT ![i] = @ \ {n}]
    /\ steady' = FALSE
    /\ ev' = Ev("fault", i)
    /\ UNCHANGED <<stalled, score, cman_up, faults>>
    /\ EnvUnchanged

(* cman goes away: cman_alive fails from now on *)
CmanFail(i) ==
    /\ Alive(i)
    /\ cman_up[i]
    /\ faults > 0
    /\ faults' = faults - 1
    /\ cman_up' = [cman_up EXCEPT ![i] = FALSE]
    /\ steady' = FALSE
    /\ ev' = Ev("fault", i)
    /\ UNCHANGED <<stalled, score, unreadable>>
    /\ EnvUnchanged

(***************************************************************************)
(* The end of a cycle of quorum_loop, main.c:998-1036: the time the cycle  *)
(* took, the paranoid reboot and the sleep until the next cycle.  A struct *)
(* timeval is a record of seconds and microseconds.                        *)
(***************************************************************************)
TV(s, u) == [tv_sec |-> s, tv_usec |-> u]

Usecs == {0, 1, 999999}

(* in microseconds *)
Micro(tv) == tv.tv_sec * 1000000 + tv.tv_usec

(* A comparison with the result inverted (C17 must notice). *)
CmpInverted(left, right) ==
    IF Micro(left) > Micro(right) THEN 1
    ELSE IF Micro(left) < Micro(right) THEN -1 ELSE 0

(* main.c:727-743 *)
cmp_tv(left, right) ==
    IF left.tv_sec > right.tv_sec THEN -1
    ELSE IF left.tv_sec < right.tv_sec THEN 1
    ELSE IF left.tv_usec > right.tv_usec THEN -1
    ELSE IF left.tv_usec < right.tv_usec THEN 1
    ELSE 0

(* _diff_tv(dest, start, end), declared at main.c:51-52; its body is not   *)
(* in main.c: dest = end - start.                                          *)
diff_tv(start, end) ==
    IF end.tv_usec >= start.tv_usec
    THEN TV(end.tv_sec - start.tv_sec, end.tv_usec - start.tv_usec)
    ELSE TV(end.tv_sec - start.tv_sec - 1,
            end.tv_usec + 1000000 - start.tv_usec)

(* the clock after d more *)
add_tv(t, d) ==
    IF t.tv_usec + d.tv_usec >= 1000000
    THEN TV(t.tv_sec + d.tv_sec + 1, t.tv_usec + d.tv_usec - 1000000)
    ELSE TV(t.tv_sec + d.tv_sec, t.tv_usec + d.tv_usec)

(* main.c:803-804 *)
maxtime(interval) == TV(interval * qc_tko, 0)

(* main.c:1006-1007: the cycle is reported as failed *)
Overrun(diff, interval, paranoid) ==
    cmp_tv(maxtime(interval), diff) = 1 /\ paranoid

(* main.c:1014-1015 *)
OverrunReboots(diff, interval, paranoid, debug) ==
    Overrun(diff, interval, paranoid) /\ ~debug

(* A sleep of a whole interval whatever the cycle took (C18 must notice). *)
WholeInterval(diff, interval) == TV(interval, 0)

(* main.c:1024-1032 *)
SleepTime(diff, interval) ==
    IF cmp_tv(diff, TV(interval, 0)) = 1
    THEN diff_tv(diff, TV(interval, 0))
    ELSE TV(interval, 0)

(* what a cycle may take *)
Durations(interval) ==
    {TV(s, u) : s \in 0..(interval * qc_tko + 1), u \in Usecs}

(* the configurations and clocks quorum_loop may be entered with *)
Laps ==
    {[pc |-> "run", interval |-> iv, paranoid |-> p, debug |-> d,
      oldtime |-> TV(0, u), prev |-> TV(0, u), diff |-> TV(0, 0),
      sleeptime |-> TV(0, 0),
      took |-> TV(0, 0), emerg |-> FALSE, n |-> 1] :
        iv \in 1..MaxInterval, p \in BOOLEAN, d \in BOOLEAN,
        u \in {0, 999999}}

NodesUnchanged ==
    UNCHANGED <<now, done, stalled, score, cman_up, unreadable, faults, runs,
                rf_reboot, order, disk, pc, x, qc_status, qc_master,
                qc_incarnation, msg, bid_pending, upgrade, mask, master_mask,
                ni, cman, ret, steady, evils, race, death, tally, late,
                ev>>

(* main.c:1000-1032: the cycle that began at oldtime ends d later *)
LapEnds(d) ==
    /\ lap.pc = "run"
    /\ \E newtime \in {add_tv(lap.oldtime, d)} :
       \E diff \in {diff_tv(lap.oldtime, newtime)} :
          lap' = [lap EXCEPT
                    !.pc = IF OverrunReboots(diff, lap.interval, lap.paranoid,
                                             lap.debug)
                           THEN "rebooted" ELSE "sleep",
                    !.took = d,
                    !.diff = diff,
                    !.emerg = Overrun(diff, lap.interval, lap.paranoid),
                    !.sleeptime = SleepTime(diff, lap.interval)]
    /\ NodesUnchanged

(* main.c:1035-1036 and 817-819: the sleep is over, the next cycle begins *)
LapStarts ==
    /\ lap.pc = "sleep"
    /\ lap.n < MaxLaps
    /\ lap' = [lap EXCEPT
                 !.pc = "run",
                 !.prev = lap.oldtime,
                 !.oldtime = add_tv(add_tv(lap.oldtime, lap.diff),
                                    lap.sleeptime),
                 !.n = @ + 1]
    /\ NodesUnchanged

(* What every node does by itself. *)
Core ==
    \/ \E i \in TwoNodes : Start(i)
    \/ \E i \in Nodes : InitCycle(i)
    \/ \E i \in Nodes : LoopCycle(i)
    \/ Tick

GoodScores == {[i \in Nodes |-> 1]}

Init == InitWith(GoodScores, {FALSE}, TwoNodes)

(* Spec: a node may stall (and resume). *)
Next ==
    \/ Core
    \/ \E i \in Nodes : Stall(i)
    \/ \E i \in Nodes : Resume(i)

Spec == Init /\ [][Next]_vars

(* SpecQuiet: nothing goes wrong. *)
NextQuiet == Core

SpecQuiet == Init /\ [][NextQuiet]_vars

(* SpecScore: the heuristic score of a node may drop (and recover), with   *)
(* and without reboot= set.                                                *)
InitScore == InitWith(GoodScores, BOOLEAN, TwoNodes)

NextScore ==
    \/ Core
    \/ \E i \in TwoNodes : ScoreDrop(i)
    \/ \E i \in Nodes : ScoreUp(i)

SpecScore == InitScore /\ [][NextScore]_vars

(* SpecEvil: the daemons are started together when the cluster boots, one *)
(* of them with an insufficient score that recovers later, and a node may  *)
(* stall.                                                                  *)
OneLowScore == {[i \in Nodes |-> IF i = n THEN 0 ELSE 1] : n \in TwoNodes}

InitEvil == InitWith(OneLowScore, {FALSE}, TwoNodes)

StartAtBoot(i) ==
    /\ now = 0
    /\ Start(i)

NextEvil ==
    \/ \E i \in TwoNodes : StartAtBoot(i)
    \/ \E i \in Nodes : InitCycle(i)
    \/ \E i \in Nodes : LoopCycle(i)
    \/ Tick
    \/ \E i \in Nodes : Stall(i)
    \/ \E i \in Nodes : Resume(i)
    \/ \E i \in Nodes : ScoreUp(i)

SpecEvil == InitEvil /\ [][NextEvil]_vars

(* SpecRead: reads of a sector may fail on a node (and work again). *)
NextRead ==
    \/ Core
    \/ \E i, n \in TwoNodes : ReadBreak(i, n)
    \/ \E i, n \in Nodes : ReadFix(i, n)

SpecRead == Init /\ [][NextRead]_vars

(* SpecExit: cman may go away, and a node may be told to terminate. *)
NextExit ==
    \/ Core
    \/ \E i \in Nodes : CmanFail(i)
    \/ \E i \in Nodes : Terminate(i)

SpecExit == Init /\ [][NextExit]_vars

(* SpecTally: reads may fail and scores may drop (and recover), and the    *)
(* cycles since each node's promotion are counted.                         *)
InitTally == InitTimed(GoodScores, {FALSE}, TwoNodes, {NoLap}, {TallyOn})

NextTally ==
    \/ NextRead
    \/ \E i \in TwoNodes : ScoreDrop(i)
    \/ \E i \in Nodes : ScoreUp(i)

SpecTally == InitTally /\ [][NextTally]_vars

(* SpecLate: a node may hang in the middle of a cycle, after its reads and *)
(* before the write of its own block (and go on later).                    *)
NextLate ==
    \/ Core
    \/ \E i \in Nodes : StallInCycle(i)
    \/ \E i \in Nodes : ResumeWrite(i)

SpecLate == Init /\ [][NextLate]_vars

(* SpecTrio: three nodes are started together when the cluster boots, and  *)
(* the master may stall once they all are in steady state.                 *)
InitTrio == InitWith(GoodScores, {FALSE}, Nodes)

NextTrio ==
    \/ \E i \in Nodes : StartAtBoot(i)
    \/ \E i \in Nodes : InitCycle(i)
    \/ \E i \in Nodes : LoopCycle(i)
    \/ Tick
    \/ \E i \in Nodes : StallMaster(i)
    \/ \E i \in Nodes : Resume(i)

SpecTrio == InitTrio /\ [][NextTrio]_vars

(* the machine comes back after reboot(RB_AUTOBOOT) and starts qdiskd *)
Restart(i) ==
    /\ pc[i] = "dead"
    /\ Start(i)

(* SpecCollapse: three nodes are started together when the cluster boots,  *)
(* with and without reboot= set; the score of the master may drop (and     *)
(* recover), and a node that rebooted comes back.  Every running daemon    *)
(* keeps cycling (it runs under a real-time scheduling policy and sleeps   *)
(* one interval per cycle) and time passes.                                *)
InitCollapse == InitWith(GoodScores, BOOLEAN, Nodes)

NextCollapse ==
    \/ \E i \in Nodes : StartAtBoot(i)
    \/ \E i \in Nodes : InitCycle(i)
    \/ \E i \in Nodes : LoopCycle(i)
    \/ Tick
    \/ \E i \in Nodes : ScoreDropMaster(i)
    \/ \E i \in Nodes : ScoreUp(i)
    \/ \E i \in Nodes : Restart(i)

FairCollapse ==
    /\ WF_vars(Tick)
    /\ \A i \in Nodes : WF_vars(InitCycle(i))
    /\ \A i \in Nodes : WF_vars(LoopCycle(i))

SpecCollapse == InitCollapse /\ [][NextCollapse]_vars /\ FairCollapse

(* SpecLap: the timing of the cycles of one node, for every interval,      *)
(* paranoid and debug setting and every duration of a cycle.               *)
InitLap == InitTimed(GoodScores, {FALSE}, TwoNodes, Laps, {NoTally})

NextLap ==
    \/ \E d \in Durations(lap.interval) : LapEnds(d)
    \/ LapStarts

SpecLap == InitLap /\ [][NextLap]_vars

(***************************************************************************)
(* The properties.  A cycle is a step of InitCycle or LoopCycle; ev tells  *)
(* what the cycle that led to the current state read, decided and wrote.   *)
(***************************************************************************)
Cycle == ev.kind \in {"init", "loop"}

MastersNow == {i \in Nodes : pc[i] = "loop" /\ qc_status[i] = S_MASTER}

(* C1 -- single master: once steady state is reached (every participating  *)
(* node is through quorum_init and tracks every other participating node   *)
(* as RUN or MASTER, and since then no node stalled, restarted or changed  *)
(* score eligibility), at most one node has qc_status = S_MASTER.          *)
C1_SingleMaster == steady => Cardinality(MastersNow) <= 1

C1_Witness ==
    /\ steady
    /\ Cardinality(MastersNow) = 1
    /\ Cardinality({i \in Nodes : Participant(i)}) >= 2

(* C2 -- score gate: in every quorum_loop cycle in which the sampled score *)
(* is below score_req, the block the node writes for itself at the end of  *)
(* the cycle has neither state RUN nor state MASTER.                       *)
C2_ScoreGate ==
    (ev.kind = "loop" /\ ev.low) =>
        /\ ev.wrote \notin {S_RUN, S_MASTER}
        /\ ev.wrote # -1 =>
              /\ disk[ev.node].ps_state = ev.wrote
              /\ disk[ev.node].ps_updatenode = ev.node

C2_Witness ==
    /\ ev.kind = "loop"
    /\ ev.low
    /\ ev.status0 = S_MASTER
    /\ ev.wrote = S_NONE
    /\ disk[ev.node].ps_state = S_NONE

(* C3 as stated -- a node whose local state is not MASTER never writes a   *)
(* peer's block, in the heartbeat-timeout case and the undead case alike.  *)
C3_OnlyMasterWrites == (Cycle /\ ev.evicts # {}) => ev.status0 = S_MASTER

(* C3 -- foreign-sector writes: a node writes into another node's sector   *)
(* only to record state EVICT; in the heartbeat-timeout case it writes     *)
(* only while its own local state is MASTER, in the undead case it writes  *)
(* whatever its own local state is.                                        *)
C3_ForeignWrites ==
    /\ \A n \in Nodes :
          disk[n].ps_updatenode \notin {0, n} => disk[n].ps_state = S_EVICT
    /\ Cycle =>
          \A n \in ev.evicts :
             /\ n # ev.node
             /\ disk[n].ps_state = S_EVICT
             /\ \/ ev.cases[n] = 3
                \/ ev.cases[n] = 2 /\ ev.status0 = S_MASTER

C3_Witness ==
    /\ Cycle
    /\ \E n \in ev.evicts :
          /\ ev.cases[n] = 2
          /\ ev.status0 = S_MASTER
          /\ disk[n].ps_updatenode = ev.node

(* C4 as stated -- once an observer has recorded evil_incarnation = X for  *)
(* a peer, no later cycle of that observer transitions the peer to RUN     *)
(* while the peer's observed incarnation equals X.                         *)
C4_NeverAgain ==
    Cycle =>
       \A n \in ev.up :
          ni[ev.node][n].ni_incarnation \notin evils[ev.node][n]

(* C4 -- eviction monotonicity: while an observer holds evil_incarnation = *)
(* X (X # 0) for a peer, no cycle of that observer transitions the peer's  *)
(* tracked state to RUN while the peer's observed incarnation equals X.    *)
(* (Case 1 of check_transitions clears the record when the peer's block    *)
(* shows a state other than EVICT.)                                        *)
C4_EvictionMonotonic ==
    Cycle =>
       \A n \in ev.up :
          \/ ev.evil0[n] = 0
          \/ ev.evil0[n] # ni[ev.node][n].ni_incarnation

C4_Witness ==
    /\ Cycle
    /\ \E n \in ev.up : evils[ev.node][n] # {}

(* C5 as stated -- node i wins a bid only if every node with a lower id is *)
(* not running quorum_loop in state RUN or publishes ACK with arg = i.     *)
C5_LowerIdsAcked ==
    (ev.kind = "loop" /\ ev.won) =>
       \A j \in Nodes :
          j < ev.node =>
             \/ ~(pc[j] = "loop" /\ qc_status[j] = S_RUN)
             \/ disk[j].ps_msg = M_ACK /\ disk[j].ps_arg = ev.node

(* C5 -- bid dominance: node i assumes MASTER through a won bid only if,   *)
(* in that cycle, every other node (so every node with id < i) is either   *)
(* not tracked by i as running (INIT or higher) or publishes ACK with      *)
(* arg = i in the block i read.                                            *)
C5_BidDominance ==
    (ev.kind = "loop" /\ ev.won) =>
       \A j \in Nodes \ {ev.node} :
          \/ state_run(ni[ev.node][j].ni_state) = 0
          \/ /\ ni[ev.node][j].ni_status.ps_msg = M_ACK
             /\ ni[ev.node][j].ni_status.ps_arg = ev.node

C5_Witness ==
    /\ ev.kind = "loop"
    /\ ev.won
    /\ qc_status[ev.node] = S_MASTER
    /\ \E j \in Nodes : j < ev.node /\ Alive(j)

C7_SelfEviction ==
    /\ Cycle =>
          ((/\ ev.node \notin ev.failed
            /\ ev.own.ps_updatenode # 0
            /\ ev.own.ps_updatenode # ev.node
            /\ ev.own.ps_state = S_EVICT)
           <=> ev.evicted)
    /\ (Cycle /\ ev.evicted) =>
          /\ ev.reboot
          /\ pc[ev.node] = "dead"
          /\ ev.wrote = -1
          /\ ev.evicts = {}
          /\ ev.branch = 0
          /\ \A n \in Nodes : ev.cases[n] = 0
          /\ disk[ev.node] = ev.own
    /\ \A i \in Nodes :
          pc[i] = "dead" =>
             /\ disk[i].ps_updatenode # i
             /\ disk[i].ps_state = S_EVICT

C7_Witness ==
    /\ ev.kind = "loop"
    /\ ev.evicted
    /\ ev.own.ps_state = S_EVICT
    /\ pc[ev.node] = "dead"

(* C8 as stated -- a node in state MASTER that observes another node       *)
(* (tracked RUN or higher) whose block reports MASTER abdicates in that    *)
(* cycle, whether the other id is lower or higher than its own.            *)
C8_AlwaysAbdicates ==
    (ev.kind = "loop" /\ ~ev.reboot /\ ev.mstatus = S_MASTER
        /\ ev.others # {}) => ev.abdicated

(* C8 -- master conflict: a node whose local state is MASTER (after the    *)
(* score gate) and that observes another node (tracked RUN or higher)      *)
(* whose block reports MASTER abdicates in that cycle exactly when         *)
(* master_exists returns an id other than its own, that is when the other  *)
(* master has a lower id or its own block as read does not report MASTER;  *)
(* it then becomes RUN, restarts the upgrade_wait countdown, clears        *)
(* bid_pending and the message, and does not reboot.                       *)
C8_MasterConflict ==
    (ev.kind = "loop" /\ ~ev.reboot /\ ev.mstatus = S_MASTER
        /\ ev.others # {}) =>
       /\ ev.abdicated <=>
             \/ Min(ev.others) < ev.node
             \/ ni[ev.node][ev.node].ni_status.ps_state # S_MASTER
       /\ ev.abdicated =>
             /\ qc_status[ev.node] = S_RUN
             /\ upgrade[ev.node] = qc_upgrade_wait
             /\ bid_pending[ev.node] = 0
             /\ msg[ev.node].m_msg = M_NONE
             /\ pc[ev.node] = "loop"
             /\ disk[ev.node].ps_state = S_RUN

C8_Witness ==
    /\ ev.kind = "loop"
    /\ ev.mstatus = S_MASTER
    /\ ev.others # {}
    /\ ev.abdicated
    /\ qc_status[ev.node] = S_RUN

C10_FailureIsMiss ==
    (Cycle /\ ~ev.reboot) =>
       \A n \in ev.failed \ {ev.node} :
          /\ ni[ev.node][n].ni_last_seen = ev.last0[n]
          /\ ni[ev.node][n].ni_misses = ev.misses0[n] + 1

(* C10 -- transient read failure: if reading a peer's block fails in a     *)
(* cycle, the peer's last_seen is not advanced and neither misses nor seen *)
(* is incremented; the peer is not timed out in that cycle, however many   *)
(* consecutive cycles the block has been unreadable.                       *)
C10_ReadFailure ==
    (Cycle /\ ~ev.reboot) =>
       \A n \in ev.failed \ {ev.node} :
          /\ ni[ev.node][n].ni_last_seen = ev.last0[n]
          /\ ni[ev.node][n].ni_misses <= ev.misses0[n]
          /\ ni[ev.node][n].ni_seen <= ev.seen0[n]
          /\ ev.cases[n] # 2

C10_Witness ==
    /\ ev.kind = "loop"
    /\ \E n \in ev.failed \ {ev.node} :
          /\ ni[ev.node][n].ni_state >= S_RUN
          /\ ni[ev.node][n].ni_last_seen + qc_tko + 1 < now
          /\ disk[n].ps_timestamp > ni[ev.node][n].ni_last_seen

(* C11 as stated -- master mask publication: every block a node writes for *)
(* itself with state MASTER, the first one included, carries master_mask   *)
(* equal to the intersection, computed in that cycle, of its outgoing mask *)
(* with the members cman reports; no node that is not a member has its bit *)
(* set in a published master_mask.                                         *)
C11_MasterMask ==
    (ev.kind = "loop" /\ ev.wrote = S_MASTER) =>
       /\ disk[ev.node].ps_master_mask = mask[ev.node] \cap Members
       /\ disk[ev.node].ps_master_mask \subseteq Members

(* C12 as stated -- seq monotonicity: across successive writes by a node   *)
(* to its own block during quorum_loop the published seq never decreases.  *)
C12_SeqNeverDecreases ==
    (ev.kind = "loop" /\ ev.wrote # -1 /\ ~ev.halted) =>
       disk[ev.node].ps_seq >= ev.seq0

(* C12 -- seq: across successive writes by a node to its own block during  *)
(* quorum_loop the published seq stays or goes up by one (a downgrade, an  *)
(* upgrade, an abdication or a bid), except when do_vote or check_votes    *)
(* answers the bid of a node with a lower id: the block then carries that  *)
(* node's id as arg and the seq of its bid, which may be lower than the    *)
(* seq the writer published before.                                        *)
C12_SeqEcho ==
    (ev.kind = "loop" /\ ev.wrote # -1 /\ ~ev.halted) =>
       \/ disk[ev.node].ps_seq \in {ev.seq0, ev.seq0 + 1}
       \/ /\ ev.branch \in {2, 3}
          /\ \E n \in Nodes :
                /\ n < ev.node
                /\ ni[ev.node][n].ni_status.ps_msg = M_BID
                /\ disk[ev.node].ps_arg = n
                /\ disk[ev.node].ps_seq = ni[ev.node][n].ni_status.ps_seq

C12_Witness ==
    /\ ev.kind = "loop"
    /\ ev.wrote # -1
    /\ ~ev.halted
    /\ disk[ev.node].ps_msg = M_ACK
    /\ disk[ev.node].ps_seq < ev.seq0
    /\ disk[ev.node].ps_seq =
          ni[ev.node][disk[ev.node].ps_arg].ni_status.ps_seq

(* C13 -- vote signalling: a node tells cman "the quorum device has a      *)
(* vote" in a cycle only if its score is at least score_req in that cycle  *)
(* and either its local state is MASTER and master_exists reports its own  *)
(* id, or its local state is RUN, master_exists reports another node, and  *)
(* the bit of this node reads as set in the master_mask of that node's     *)
(* block.  A node whose score is below score_req never signals a vote and  *)
(* neither holds MASTER nor bids in that cycle.                             *)
C13_VoteSignal ==
    /\ (ev.kind = "loop" /\ ev.vote = 1) =>
          /\ ~ev.low
          /\ score[ev.node] >= ScoreReq(qc_scoremin, score_max)
          /\ \/ /\ qc_status[ev.node] = S_MASTER
                /\ ev.master = ev.node
             \/ /\ qc_status[ev.node] = S_RUN
                /\ ev.master \notin {0, ev.node}
                /\ ni[ev.node][ev.master].ni_status.ps_state = S_MASTER
                /\ ev.online
                /\ \/ ni[ev.node][ev.master].ni_status.ps_master_mask
                         = Garbage
                   \/ ev.node \in
                         ni[ev.node][ev.master].ni_status.ps_master_mask
    /\ (ev.kind = "loop"
          /\ score[ev.node] < ScoreReq(qc_scoremin, score_max)) =>
          /\ ev.vote # 1
          /\ qc_status[ev.node] # S_MASTER
          /\ msg[ev.node].m_msg # M_BID
          /\ bid_pending[ev.node] = 0
          /\ ev.wrote \notin {S_RUN, S_MASTER}

C13_Witness ==
    /\ ev.kind = "loop"
    /\ ev.vote = 1
    /\ qc_status[ev.node] = S_RUN
    /\ ev.master \notin {0, ev.node}
    /\ ev.node \in ni[ev.node][ev.master].ni_status.ps_master_mask
    /\ cman[ev.node].vote = 1

(* The bid for the succession of a dead master is in its k-th interval. *)
BidAge == IF death.bid < 0 THEN -1 ELSE now - death.bid

(* the bidder has run its cycle of the current tick *)
BidderDone == death.bid >= 0 /\ done[death.bidder]

(* C14 as stated -- master death: three nodes, node 1 MASTER; when node 1  *)
(* stops updating its block, node 2 writes EVICT into node 1's sector in   *)
(* the cycle in which node 1's misses exceed tko, node 2 becomes MASTER    *)
(* master_wait intervals after the cycle of its bid, and node 3 never      *)
(* becomes MASTER.                                                         *)
C14_EvictThenMaster ==
    death.master = 1 =>
       /\ (Cycle /\ ev.node = 2 /\ ev.cases[1] = 2
             /\ ev.misses0[1] = qc_tko) => 1 \in ev.evicts
       /\ (death.bid >= 0 /\ BidderDone) =>
             (qc_status[2] = S_MASTER <=> BidAge >= qc_master_wait)
       /\ qc_status[3] # S_MASTER

(* C14 -- master death: three nodes, node 1 MASTER and all in steady       *)
(* state; when node 1 stops updating its block, node 2 (and node 3) mark   *)
(* it evicted in their own tables in the cycle in which its misses exceed  *)
(* tko, without writing into its sector; node 2, the lowest surviving id,  *)
(* bids and becomes MASTER in the cycle in which bid_pending reaches       *)
(* master_wait, that is master_wait - 1 intervals after the cycle of its   *)
(* bid; node 2 writes EVICT into node 1's sector only once it is MASTER    *)
(* (timeout case) or when node 1 writes again with its old incarnation     *)
(* (undead case); node 3 never becomes MASTER.                             *)
C14_MasterDeath ==
    death.master = 1 =>
       /\ (Cycle /\ ev.cases[1] = 2 /\ ev.status0 # S_MASTER) =>
             /\ 1 \notin ev.evicts
             /\ ni[ev.node][1].ni_state = S_EVICT
       /\ (Cycle /\ 1 \in ev.evicts) =>
             \/ ev.cases[1] = 2 /\ ev.status0 = S_MASTER
             \/ ev.cases[1] = 3
       /\ death.bid >= 0 => death.bidder = 2
       /\ (death.bid >= 0 /\ BidderDone) =>
             (qc_status[2] = S_MASTER <=> BidAge >= qc_master_wait - 1)
       /\ qc_status[3] # S_MASTER

C14_Witness ==
    /\ death.master = 1
    /\ death.bidder = 2
    /\ stalled[1]
    /\ BidAge = qc_master_wait
    /\ qc_status[2] = S_MASTER
    /\ ev.kind = "loop" /\ ev.node = 2
    /\ ev.cases[1] = 2
    /\ 1 \in ev.evicts
    /\ disk[1].ps_state = S_EVICT
    /\ disk[1].ps_updatenode = 2
    /\ qc_status[3] = S_RUN

(* The cycle that led to the current state is the one in which master m    *)
(* found its score below score_req.                                        *)
Collapsed(m) ==
    /\ ev.kind = "loop"
    /\ ev.node = m
    /\ ev.status0 = S_MASTER
    /\ ev.low

(* the other nodes that are running with sufficient score *)
Survivors(m) ==
    {j \in Nodes \ {m} :
        Participant(j) /\ score[j] >= ScoreReq(qc_scoremin, score_max)}

(* the intervals a succession may take: the block of the old master times  *)
(* out after tko + 1 misses (reboot configured), the bid is made in that   *)
(* cycle and won master_wait - 1 cycles later                              *)
ElectBy == qc_tko + qc_master_wait

C15_Downgrade ==
    \A m \in Nodes :
       Collapsed(m) =>
          /\ qc_status[m] = S_NONE
          /\ ev.vote = 0
          /\ cman[m].vote = 0
          /\ msg[m].m_msg = M_NONE
          /\ bid_pending[m] = 0
          /\ rf_reboot <=> ev.reboot
          /\ rf_reboot => pc[m] = "dead" /\ ev.wrote = -1
          /\ ~rf_reboot =>
                /\ pc[m] = "loop"
                /\ ev.wrote = S_NONE
                /\ disk[m].ps_state = S_NONE

C15_Succession ==
    (/\ Collapsed(death.master)
     /\ Survivors(death.master) # {}
     /\ now + ElectBy <= MaxTime)
       ~> (\E j \in Nodes \ {death.master} :
              pc[j] = "loop" /\ qc_status[j] = S_MASTER)

LoggedOut(b, i) ==
    /\ b.ps_state = S_NONE
    /\ b.ps_msg = M_NONE
    /\ b.ps_arg = 0
    /\ b.ps_mask = {}
    /\ b.ps_master_mask = {}
    /\ b.ps_updatenode = i
    /\ b.ps_incarnation = qc_incarnation[i]

C16_LogoutBlock ==
    (ev.kind = "term" /\ ev.wrote = S_NONE) =>
       LET i == ev.node
           again == quorum_logout(disk, i, qc_incarnation[i], now + 1)
       IN /\ pc[i] = "exited"
          /\ LoggedOut(disk[i], i)
          /\ LoggedOut(again[i], i)
          /\ again[i].ps_seq >= disk[i].ps_seq
          /\ \A n \in Nodes \ {i} : again[n] = disk[n]

C16_LogoutStep ==
    ev'.kind = "term" =>
       \A n \in Nodes \ {ev'.node} : disk'[n] = disk[n]

C17_CycleOverrun ==
    lap.pc \in {"sleep", "rebooted"} =>
       LET over == Micro(lap.took) > lap.interval * qc_tko * 1000000
       IN /\ lap.pc = "rebooted" <=> (over /\ lap.paranoid /\ ~lap.debug)
          /\ lap.emerg <=> (over /\ lap.paranoid)
          /\ (over /\ lap.paranoid /\ lap.debug) =>
                lap.emerg /\ lap.pc = "sleep"
          /\ lap.pc = "sleep" => (lap.n < MaxLaps => ENABLED LapStarts)

C17_Witness ==
    /\ lap.pc = "rebooted"
    /\ lap.paranoid
    /\ ~lap.debug
    /\ Micro(lap.took) = lap.interval * qc_tko * 1000000 + 1

C19_ComeUpSetsBit ==
    [][ev'.kind \in {"init", "loop"} =>
          \A n \in Nodes :
             (/\ state_run(ni[ev'.node][n].ni_state) = 0
              /\ ni'[ev'.node][n].ni_state = S_RUN)
             => /\ ni'[ev'.node][n].ni_seen > qc_tko_up
                /\ ni'[ev'.node][n].ni_incarnation =
                      ni'[ev'.node][n].ni_status.ps_incarnation
                /\ n \in disk'[ev'.node].ps_mask]_vars

(* C19 -- come-up threshold: an observer changes a peer's tracked state    *)
(* from non-runnable (NONE or EVICT) to RUN only in a cycle where the      *)
(* come-up case fires, with the peer's seen counter above tko_up; in that  *)
(* cycle the tracked incarnation is set to the observed incarnation.  In a *)
(* cycle of quorum_loop the peer's bit is set in the mask, and in the mask *)
(* of the status block if the cycle writes one; a cycle of quorum_init     *)
(* builds no mask and writes a block with an empty mask.                   *)
C19_ComeUp ==
    [][ev'.kind \in {"init", "loop"} =>
          \A n \in Nodes :
             /\ (/\ state_run(ni[ev'.node][n].ni_state) = 0
                 /\ ni'[ev'.node][n].ni_state = S_RUN)
                <=> n \in ev'.up
             /\ n \in ev'.up =>
                   /\ ni[ev'.node][n].ni_state \in {S_NONE, S_EVICT}
                   /\ ni'[ev'.node][n].ni_seen > qc_tko_up
                   /\ ni'[ev'.node][n].ni_seen >= ni[ev'.node][n].ni_seen
                   /\ ni'[ev'.node][n].ni_incarnation =
                         ni'[ev'.node][n].ni_status.ps_incarnation
                   /\ ev'.kind = "loop" =>
                         /\ n \in mask'[ev'.node]
                         /\ (~ev'.reboot /\ ~ev'.halted) =>
                               n \in disk'[ev'.node].ps_mask
                   /\ ev'.kind = "init" =>
                         /\ mask'[ev'.node] = {}
                         /\ disk'[ev'.node].ps_mask = {}]_vars

C19_Witness ==
    /\ ev.kind = "loop"
    /\ \E n \in ev.up :
          /\ ni[ev.node][n].ni_state = S_RUN
          /\ ni[ev.node][n].ni_seen = qc_tko_up + 1
          /\ ni[ev.node][n].ni_incarnation = disk[n].ps_incarnation
          /\ n \in disk[ev.node].ps_mask

(* a come-up in a cycle of quorum_init *)
C19_InitComeUp ==
    /\ ev.kind = "init"
    /\ ev.up # {}

(* C20 as stated -- clearing of evil_incarnation: a peer's                 *)
(* evil_incarnation, once non-zero, is reset to zero only in a cycle where *)
(* the peer is observed cleanly shut down (observed state NONE), never     *)
(* while the peer's block reports a running state.                         *)
C20_ClearedOnShutdownOnly ==
    [][ev'.kind \in {"init", "loop"} =>
          \A n \in Nodes :
             (/\ ni[ev'.node][n].ni_evil_incarnation # 0
              /\ ni'[ev'.node][n].ni_evil_incarnation = 0)
             => ni'[ev'.node][n].ni_status.ps_state = S_NONE]_vars

(* C20 -- clearing of evil_incarnation: a peer's evil_incarnation, once    *)
(* non-zero, is reset to zero only in a cycle where the down/restart case  *)
(* fires on an observed state other than EVICT: the peer is observed       *)
(* cleanly shut down (state NONE), or its block carries another            *)
(* incarnation than the tracked one, whatever running state it reports.    *)
(* It is never cleared in a cycle where the observed state is EVICT, by    *)
(* the eviction case or by the undead case.                                *)
C20_EvilCleared ==
    [][ev'.kind \in {"init", "loop"} =>
          \A n \in Nodes :
             ni[ev'.node][n].ni_evil_incarnation # 0 =>
                /\ ni'[ev'.node][n].ni_evil_incarnation = 0
                   <=> /\ ev'.cases[n] = 1
                       /\ ni'[ev'.node][n].ni_status.ps_state # S_EVICT
                /\ ni'[ev'.node][n].ni_evil_incarnation = 0 =>
                      \/ ni'[ev'.node][n].ni_status.ps_state = S_NONE
                      \/ /\ ni[ev'.node][n].ni_incarnation # 0
                         /\ ni[ev'.node][n].ni_incarnation #
                               ni'[ev'.node][n].ni_status.ps_incarnation
                /\ ev'.cases[n] \in {2, 3} =>
                      ni'[ev'.node][n].ni_evil_incarnation # 0
                /\ ni'[ev'.node][n].ni_status.ps_state = S_EVICT =>
                      ni'[ev'.node][n].ni_evil_incarnation # 0]_vars

C20_Witness ==
    /\ ev.kind = "loop"
    /\ \E n \in Nodes :
          /\ ev.evil0[n] # 0
          /\ ev.cases[n] = 1
          /\ ni[ev.node][n].ni_evil_incarnation = 0
          /\ ni[ev.node][n].ni_status.ps_state = S_INIT
          /\ ni[ev.node][n].ni_status.ps_incarnation # ev.evil0[n]

(* the down/restart case on an observed EVICT keeps evil_incarnation *)
C20_KeptOnEvict ==
    /\ ev.kind = "loop"
    /\ \E n \in Nodes :
          /\ ev.evil0[n] # 0
          /\ ev.cases[n] = 1
          /\ ni[ev.node][n].ni_evil_incarnation = ev.evil0[n]
          /\ ni[ev.node][n].ni_status.ps_state = S_EVICT

(* evil_incarnation cleared on a clean shutdown *)
C20_ClearedOnShutdown ==
    /\ ev.kind = "loop"
    /\ \E n \in Nodes :
          /\ ev.evil0[n] # 0
          /\ ev.cases[n] = 1
          /\ ni[ev.node][n].ni_evil_incarnation = 0
          /\ ni[ev.node][n].ni_status.ps_state = S_NONE

(* C21 as stated -- initialization phase: quorum_init runs fewer than tko  *)
(* iterations only if a termination signal arrives.                        *)
C21_FewerOnSignalOnly ==
    [][\A i \in Nodes :
          (pc[i] = "init" /\ pc'[i] # "init") =>
             x[i] = qc_tko \/ ev'.kind = "term"]_vars

(* C21 -- initialization phase: before quorum_loop starts, quorum_init     *)
(* runs tko read/check/write iterations (fewer only if the node is told to *)
(* terminate, or finds an eviction notice in its own block and reboots) in *)
(* which every block the node writes for itself has state INIT and carries *)
(* no election message, independent of its score; the node never has local *)
(* state RUN or MASTER and never bids before the steady loop begins.       *)
C21_InitState ==
    \A i \in Nodes :
       pc[i] = "init" =>
          /\ x[i] <= qc_tko
          /\ qc_status[i] = S_INIT
          /\ bid_pending[i] = 0
          /\ msg[i].m_msg = M_NONE
          /\ disk[i].ps_updatenode = i =>
                /\ disk[i].ps_state = S_INIT
                /\ disk[i].ps_msg = M_NONE
                /\ disk[i].ps_incarnation = qc_incarnation[i]

C21_InitStep ==
    /\ \A i \in Nodes :
          /\ (pc[i] # "init" /\ pc'[i] = "init") => x'[i] = 0
          /\ (pc[i] = "init" /\ pc'[i] = "loop") => x[i] = qc_tko
          /\ (pc[i] = "init" /\ pc'[i] # "init") =>
                \/ x[i] = qc_tko /\ ev'.kind = "loop" /\ ev'.node = i
                \/ ev'.kind = "term" /\ ev'.node = i
                \/ /\ ev'.kind = "init" /\ ev'.node = i
                   /\ ev'.evicted /\ ev'.reboot
                   /\ pc'[i] = "dead"
          /\ (pc[i] = "init" /\ pc'[i] = "init" /\ x'[i] # x[i]) =>
                /\ x'[i] = x[i] + 1
                /\ ev'.kind = "init" /\ ev'.node = i
    /\ ev'.kind = "init" =>
          /\ pc[ev'.node] = "init"
          /\ x[ev'.node] < qc_tko
          /\ ~ev'.evicted =>
                /\ ev'.wrote = S_INIT
                /\ disk'[ev'.node].ps_updatenode = ev'.node
                /\ disk'[ev'.node].ps_state = S_INIT
                /\ disk'[ev'.node].ps_msg = M_NONE

C21_Initialization == []C21_InitState /\ [][C21_InitStep]_vars

C21_Witness ==
    /\ ev.kind = "init"
    /\ ~ev.evicted
    /\ pc[ev.node] = "init"
    /\ x[ev.node] = qc_tko
    /\ score[ev.node] = 0
    /\ disk[ev.node].ps_state = S_INIT
    /\ disk[ev.node].ps_msg = M_NONE

(* C22 -- earliest mastership: a node never writes state MASTER earlier    *)
(* than the (upgrade_wait + master_wait)-th quorum_loop cycle counted from *)
(* and including the cycle in which it last promoted from NONE to RUN or   *)
(* abdicated; the winner of a race is MASTER no earlier than upgrade_wait  *)
(* + master_wait - 1 intervals after the promotions (its upgrade_wait +    *)
(* master_wait-th cycle), and a node that then observes it as master sets  *)
(* the master's bit in its own mask.                                       *)
C22_EarliestMaster ==
    /\ \A i \in Nodes :
          (pc[i] = "loop" /\ qc_status[i] = S_MASTER) =>
             tally[i].cycles >= qc_upgrade_wait + qc_master_wait
    /\ (ev.kind = "loop" /\ ev.won) =>
          /\ tally[ev.node].cycles >= qc_upgrade_wait + qc_master_wait
          /\ disk[ev.node].ps_state = S_MASTER
    /\ (race.t0 >= 0 /\ race.won) =>
          now >= race.t0 + qc_upgrade_wait + qc_master_wait - 1
    /\ ev.kind = "loop" =>
          \A n \in Nodes :
             ev.cases[n] = 5 =>
                /\ ni[ev.node][n].ni_state = S_MASTER
                /\ n \in mask[ev.node]
                /\ (~ev.reboot /\ ~ev.halted) => n \in disk[ev.node].ps_mask

C22_Witness ==
    /\ ev.kind = "loop"
    /\ race.won
    /\ Cardinality(race.nodes) = 2
    /\ now = race.t0 + qc_upgrade_wait + qc_master_wait - 1
    /\ \E m \in race.nodes :
          /\ m < ev.node
          /\ ev.cases[m] = 5
          /\ qc_status[m] = S_MASTER
          /\ tally[m].cycles = qc_upgrade_wait + qc_master_wait
          /\ m \in disk[ev.node].ps_mask

(* C23 as stated -- all-ack holding time: a node assumes MASTER only after *)
(* the master_wait consecutive cycles up to the assumption each had every  *)
(* tracked-alive peer publishing ACK with arg = this node.                 *)
C23_HeldAllAcked ==
    (ev.kind = "loop" /\ ev.won) => tally[ev.node].acks >= qc_master_wait

(* C23 -- bid holding time: a node assumes MASTER only in a cycle without  *)
(* a master in which every tracked-alive peer publishes ACK with arg =     *)
(* this node and bid_pending has reached master_wait; bid_pending counts   *)
(* every cycle without a master from the bid on, all-acked or not, so the  *)
(* bid is at least master_wait cycles old, of which only the last needs to *)
(* be all-acked; cycles in which a master existed do not count.            *)
C23_BidHeld ==
    /\ \A i \in Nodes :
          (pc[i] = "loop" /\ bid_pending[i] > 0) =>
             /\ qc_status[i] = S_RUN
             /\ tally[i].bid =
                   Min({bid_pending[i], qc_upgrade_wait + qc_master_wait + 1})
    /\ (ev.kind = "loop" /\ ev.won) =>
          /\ ev.branch = 3
          /\ ev.master = 0
          /\ tally[ev.node].bid >= qc_master_wait
          /\ tally[ev.node].acks >= 1
          /\ bid_pending[ev.node] = 0
          /\ \A n \in Running(ni[ev.node]) :
                /\ ni[ev.node][n].ni_status.ps_msg = M_ACK
                /\ ni[ev.node][n].ni_status.ps_arg = ev.node
    /\ (ev.kind = "loop" /\ ev.branch = 3 /\ ~ev.won /\ ~ev.reboot
        /\ ~ev.halted /\ bid_pending[ev.node] > 0) =>
          \/ tally[ev.node].acks = 0
          \/ bid_pending[ev.node] < qc_master_wait

C23_Witness ==
    /\ ev.kind = "loop"
    /\ ev.won
    /\ tally[ev.node].bid = qc_master_wait
    /\ tally[ev.node].acks = 1
    /\ \E n \in Running(ni[ev.node]) : disk[n].ps_msg = M_ACK

(* C24 as stated -- undead handling: a peer for which the undead case      *)
(* fires is tracked EVICT, and stays so.                                   *)
C24_UndeadStaysEvict ==
    Cycle =>
       \A n \in Nodes :
          ev.cases[n] = 3 => ni[ev.node][n].ni_state = S_EVICT

(* C24 -- undead handling: when neither the down/restart case nor the      *)
(* eviction case fires for a peer and its evil_incarnation is non-zero and *)
(* equals the observed incarnation, the node in that cycle writes EVICT    *)
(* into the peer's block (and with it, if allow_kill is set, requests      *)
(* fencing), does not change the peer's tracked state, which is EVICT, or  *)
(* NONE when the node has read an eviction notice in the peer's block      *)
(* since the timeout, and does not set the peer's bit in the outgoing      *)
(* mask; this repeats every cycle the condition persists.                  *)
C24_Undead ==
    [][(ev'.kind \in {"init", "loop"} /\ ~ev'.evicted) =>
          \A n \in Nodes \ {ev'.node} :
             /\ ev'.cases[n] = 3
                <=> /\ ev'.cases[n] \notin {1, 2}
                    /\ ni[ev'.node][n].ni_evil_incarnation # 0
                    /\ ni[ev'.node][n].ni_evil_incarnation =
                          disk[n].ps_incarnation
             /\ ev'.cases[n] = 3 =>
                   /\ n \in ev'.evicts
                   /\ disk'[n].ps_state = S_EVICT
                   /\ disk'[n].ps_updatenode = ev'.node
                   /\ ni'[ev'.node][n].ni_state = ni[ev'.node][n].ni_state
                   /\ ni'[ev'.node][n].ni_state \in {S_EVICT, S_NONE}
                   /\ ni'[ev'.node][n].ni_evil_incarnation =
                         ni[ev'.node][n].ni_evil_incarnation
                   /\ n \notin disk'[ev'.node].ps_mask
                   /\ ev'.kind = "loop" => n \notin mask'[ev'.node]]_vars

C24_Witness ==
    /\ ev.kind = "loop"
    /\ \E n \in Nodes :
          /\ ev.cases[n] = 3
          /\ n \in ev.evicts
          /\ ni[ev.node][n].ni_state = S_NONE
          /\ disk[n].ps_state = S_EVICT
          /\ disk[n].ps_updatenode = ev.node

(* the undead case on a peer that is tracked EVICT *)
C24_UndeadEvict ==
    /\ Cycle
    /\ \E n \in Nodes :
          /\ ev.cases[n] = 3
          /\ ni[ev.node][n].ni_state = S_EVICT

(* C25 as stated -- seen counts consecutive heartbeats: a miss resets the  *)
(* run, so a peer comes up (seen > tko_up) only after tko_up + 1           *)
(* back-to-back advancing observations: the cycle before the come-up was   *)
(* no miss.                                                                *)
C25_BackToBack ==
    Cycle => \A n \in ev.up : ev.misses0[n] = 0

(* C25 -- seen counts heartbeats: a peer's seen counter is the number of   *)
(* cycles in which its observed timestamp advanced since the counter was   *)
(* last reset by the down/restart case or by the timeout case; a cycle in  *)
(* which the timestamp did not advance increments misses and leaves seen   *)
(* as it is, so seen > tko_up is reached through tko_up + 1 advancing      *)
(* observations that need not be back to back.                             *)
C25_SeenCounts ==
    [][(ev'.kind \in {"init", "loop"} /\ ~ev'.evicted) =>
          \A n \in Nodes \ {ev'.node} :
             LET old == ni[ev'.node][n]
                 new == ni'[ev'.node][n]
                 runs_ == state_run(disk[n].ps_state) # 0
                 adv == runs_ /\ disk[n].ps_timestamp # old.ni_last_seen
             IN /\ new.ni_misses =
                      IF ev'.cases[n] = 1 THEN 0
                      ELSE IF ~runs_ THEN old.ni_misses
                      ELSE IF adv THEN 0 ELSE old.ni_misses + 1
                /\ new.ni_seen =
                      IF ev'.cases[n] = 1 THEN 0
                      ELSE IF ev'.cases[n] = 2 /\ disk[n].ps_state >= S_RUN
                      THEN 0
                      ELSE IF adv THEN old.ni_seen + 1 ELSE old.ni_seen
                /\ new.ni_last_seen =
                      IF adv THEN disk[n].ps_timestamp
                      ELSE old.ni_last_seen]_vars

C25_Witness ==
    /\ Cycle
    /\ \E n \in ev.up :
          /\ ev.misses0[n] > 0
          /\ ev.seen0[n] = qc_tko_up
          /\ ni[ev.node][n].ni_seen = qc_tko_up + 1
          /\ ni[ev.node][n].ni_misses = 0

(* C26 -- restart detection takes precedence: in a cycle in which a peer   *)
(* tracked with a recorded non-zero incarnation is observed with another   *)
(* incarnation, the down/restart case fires and nothing else: no eviction  *)
(* notice is written, the peer does not come up and is not promoted; its   *)
(* tracked state becomes NONE, tracked incarnation, seen and misses become *)
(* 0 and its bit is clear in the mask kept and in the mask written (a     *)
(* node that reboots for its score in that cycle writes no block).  A      *)
(* peer not tracked as running becomes tracked as running only through the *)
(* come-up case, with seen > tko_up counted from that reset.               *)
C26_RestartFirst ==
    [][(ev'.kind \in {"init", "loop"} /\ ~ev'.evicted) =>
          \A n \in Nodes \ {ev'.node} :
             LET old == ni[ev'.node][n]
                 new == ni'[ev'.node][n]
             IN /\ (old.ni_incarnation # 0
                      /\ disk[n].ps_incarnation # old.ni_incarnation) =>
                      /\ ev'.cases[n] = 1
                      /\ new.ni_state = S_NONE
                      /\ new.ni_incarnation = 0
                      /\ new.ni_seen = 0
                      /\ new.ni_misses = 0
                      /\ n \notin mask'[ev'.node]
                      /\ ~ev'.reboot => n \notin disk'[ev'.node].ps_mask
                      /\ n \notin ev'.up
                      /\ n \notin ev'.evicts
                      /\ disk'[n] = disk[n]
                /\ (state_run(new.ni_state) # 0
                      /\ state_run(old.ni_state) = 0) =>
                      /\ ev'.cases[n] = 4
                      /\ new.ni_seen > qc_tko_up
                      /\ old.ni_seen >= qc_tko_up]_vars

(* a restarted peer (its block is no eviction or logout block) is found    *)
(* through its incarnation alone                                           *)
C26_Witness ==
    /\ Cycle
    /\ \E n \in Nodes \ {ev.node} :
          /\ ev.cases[n] = 1
          /\ disk[n].ps_state > S_EVICT
          /\ disk[n].ps_incarnation = qc_incarnation[n]
          /\ runs[n] > 1
          /\ ni[ev.node][n].ni_state = S_NONE
          /\ ni[ev.node][n].ni_incarnation = 0

(* C27 -- timeout marking: in a cycle in which, after the read, a peer's   *)
(* misses exceed tko, its observed state is runnable and the down/restart  *)
(* case does not fire, the observing node, master or not, sets the peer's  *)
(* tracked state to EVICT, records evil_incarnation = the observed         *)
(* incarnation and leaves the peer's bit clear in the mask it keeps and    *)
(* writes; the timeout case never fires for a peer whose misses are <= tko.*)
C27_TimeoutMarks ==
    [][(ev'.kind \in {"init", "loop"} /\ ~ev'.evicted) =>
          \A n \in Nodes \ {ev'.node} :
             LET new == ni'[ev'.node][n] IN
             /\ (/\ ev'.cases[n] # 1
                 /\ new.ni_misses > qc_tko
                 /\ state_run(disk[n].ps_state) # 0) =>
                   /\ ev'.cases[n] = 2
                   /\ new.ni_state = S_EVICT
                   /\ new.ni_evil_incarnation = disk[n].ps_incarnation
                   /\ n \notin mask'[ev'.node]
                   /\ n \notin disk'[ev'.node].ps_mask
                   /\ n \notin ev'.up
             /\ ev'.cases[n] = 2 =>
                   /\ new.ni_misses > qc_tko
                   /\ ni[ev'.node][n].ni_misses >= qc_tko
                   /\ state_run(disk[n].ps_state) # 0]_vars

(* a node that is not master times a peer out: it marks and writes nothing *)
C27_Witness ==
    /\ Cycle
    /\ ev.mstatus # S_MASTER
    /\ \E n \in Nodes \ {ev.node} :
          /\ ev.cases[n] = 2
          /\ ev.evicts = {}
          /\ ni[ev.node][n].ni_state = S_EVICT
          /\ ni[ev.node][n].ni_evil_incarnation = disk[n].ps_incarnation
          /\ ni[ev.node][n].ni_misses = qc_tko + 1
          /\ disk[n].ps_state >= S_INIT

(* C28 -- bid start conditions: a node's message becomes BID, in memory or *)
(* in its block, or its bid_pending goes from 0 to 1, only in a cycle of   *)
(* quorum_loop in which master_exists reports no master, no peer it tracks *)
(* RUN or higher has a lower id, its local state is RUN, it had no bid     *)
(* pending, and the upgrade countdown is at zero, at least upgrade_wait    *)
(* cycles after the cycle of its last promotion or abdication; the bid     *)
(* sets bid_pending to 1.                                                  *)
C28_BidStart ==
    [][\A i \in Nodes :
          (\/ msg'[i].m_msg = M_BID /\ msg[i].m_msg # M_BID
           \/ disk'[i].ps_msg = M_BID /\ disk[i].ps_msg # M_BID
           \/ bid_pending'[i] > 0 /\ bid_pending[i] = 0) =>
             /\ ev'.kind = "loop"
             /\ ev'.node = i
             /\ ev'.branch = 1
             /\ ev'.master = 0
             /\ master_exists(i, ni'[i]) = 0
             /\ \A n \in Nodes : n < i => ni'[i][n].ni_state < S_RUN
             /\ qc_status'[i] = S_RUN
             /\ bid_pending[i] = 0
             /\ bid_pending'[i] = 1
             /\ upgrade'[i] = 0
             /\ tally'[i].cycles >= qc_upgrade_wait + 1
             /\ msg'[i].m_msg = M_BID
             /\ disk'[i].ps_msg = M_BID]_vars

(* a bid made in the first cycle in which the countdown is at zero, by a   *)
(* node that tracks a running peer with a higher id                        *)
C28_Witness ==
    /\ ev.kind = "loop"
    /\ ev.branch = 1
    /\ msg[ev.node].m_msg = M_BID
    /\ bid_pending[ev.node] = 1
    /\ upgrade[ev.node] = 0
    /\ tally[ev.node].cycles = qc_upgrade_wait + 1
    /\ \E n \in Nodes : n > ev.node /\ ni[ev.node][n].ni_state >= S_RUN

(* C29 as stated -- voting rule: in a cycle with no master and no own bid  *)
(* pending (and no change of the local state), if no peer tracked RUN with *)
(* a lower id publishes BID the outgoing message is left unchanged.        *)
C29_UnchangedWithoutBidder ==
    [][(/\ ev'.kind = "loop" /\ ~ev'.evicted /\ ~ev'.reboot
        /\ ev'.master = 0
        /\ bid_pending[ev'.node] = 0
        /\ qc_status'[ev'.node] = ev'.status0
        /\ LowBidders(ev'.node, ni'[ev'.node]) = {}) =>
          msg'[ev'.node] = msg[ev'.node]]_vars

(* C29 -- voting rule: in a cycle with no master and no own bid pending in *)
(* which the node does not start a bid of its own, if any peer tracked RUN *)
(* publishes BID (in the block the node last read of it) with an id lower  *)
(* than this node's, the outgoing message becomes ACK with arg = the       *)
(* lowest such bidder's id and seq = the seq of that block; if there is    *)
(* none the message stays what it was (reset to                            *)
(* NONE with the next seq when the local state changed in this cycle).  A  *)
(* node that starts a bid has no such bidder and publishes BID.  No step   *)
(* makes the message an ACK for a node with a higher id.                   *)
C29_Voting ==
    [][/\ (ev'.kind = "loop" /\ ~ev'.evicted /\ ~ev'.reboot
             /\ ev'.master = 0 /\ bid_pending'[ev'.node] = 0
             /\ ev'.branch # 3) =>
             LET i == ev'.node
                 low == LowBidders(i, ni'[i])
             IN /\ ev'.branch = 2
                /\ low # {} =>
                     /\ msg'[i].m_msg = M_ACK
                     /\ msg'[i].m_arg = Min(low)
                     /\ msg'[i].m_seq = ni'[i][Min(low)].ni_status.ps_seq
                     /\ disk'[i].ps_msg = M_ACK
                     /\ disk'[i].ps_arg = Min(low)
                     /\ disk'[i].ps_seq = ni'[i][Min(low)].ni_status.ps_seq
                /\ low = {} =>
                     IF qc_status'[i] = ev'.status0
                     THEN msg'[i] = msg[i]
                     ELSE /\ msg'[i].m_msg = M_NONE
                          /\ msg'[i].m_arg = msg[i].m_arg
                          /\ msg'[i].m_seq = msg[i].m_seq + 1
       /\ (ev'.kind = "loop" /\ ev'.branch = 1) =>
             /\ LowBidders(ev'.node, ni'[ev'.node]) = {}
             /\ msg'[ev'.node].m_msg = M_BID
       /\ \A i \in Nodes :
             (msg'[i].m_msg = M_ACK /\ msg'[i] # msg[i]) =>
                msg'[i].m_arg < i]_vars

(* a vote for a lower bidder by a node that was not acknowledging it yet *)
C29_Witness ==
    /\ ev.kind = "loop"
    /\ ev.branch = 2
    /\ LowBidders(ev.node, ni[ev.node]) # {}
    /\ msg[ev.node].m_msg = M_ACK
    /\ msg[ev.node].m_arg = Min(LowBidders(ev.node, ni[ev.node]))
    /\ msg[ev.node].m_seq = disk[msg[ev.node].m_arg].ps_seq
    /\ disk[msg[ev.node].m_arg].ps_msg = M_BID
    /\ ev.own.ps_msg # M_ACK

(* What C30 says of one cycle of node i in the bidding arm: nis is its     *)
(* node table after check_transitions, m0 its message and bp its           *)
(* bid_pending when check_votes is called (already incremented), st, m and *)
(* pending its local state, message and bid_pending afterwards.            *)
C30_Resolves(i, nis, m0, bp, st, m, pending) ==
    LET alive == {n \in Nodes : state_run(nis[n].ni_state) # 0}
        acked == \A n \in alive : /\ nis[n].ni_status.ps_msg = M_ACK
                                  /\ nis[n].ni_status.ps_arg = i
        nacked == \E n \in alive : /\ nis[n].ni_status.ps_msg = M_NACK
                                   /\ nis[n].ni_status.ps_arg = i
        lows == {n \in alive : n < i /\ nis[n].ni_status.ps_msg = M_BID}
    IN IF acked
       THEN IF bp >= qc_master_wait
            THEN st = S_MASTER /\ m.m_msg = M_NONE /\ pending = 0
            ELSE st = S_RUN /\ m = m0 /\ m.m_msg = M_BID /\ pending = bp
       ELSE IF nacked
       THEN st = S_RUN /\ m.m_msg = M_NONE /\ pending = 0
       ELSE IF lows # {}
       THEN /\ st = S_RUN
            /\ m = [m_msg |-> M_ACK, m_arg |-> Min(lows),
                    m_seq |-> nis[Min(lows)].ni_status.ps_seq]
            /\ pending = 0
       ELSE st = S_RUN /\ m = m0 /\ m.m_msg = M_BID /\ pending = bp

(* node tables of node 2 in which nodes 1 and 3 are tracked down or RUN    *)
(* and publish any message about node 2 or node 3                          *)
C30_Tables ==
    {[n \in Nodes |->
        IF n = 2 THEN node_info_init(0)[n]
        ELSE [node_info_init(0)[n] EXCEPT
                 !.ni_state = t[n].st,
                 !.ni_status.ps_state = t[n].st,
                 !.ni_status.ps_msg = t[n].msg,
                 !.ni_status.ps_arg = t[n].arg,
                 !.ni_status.ps_seq = n]] :
     t \in [{1, 3} -> [st : {S_NONE, S_RUN},
                       msg : {M_NONE, M_BID, M_ACK, M_NACK},
                       arg : {2, 3}]]}

(* check_votes and the switch on its value, on every such table *)
C30_Switch ==
    \A nis \in C30_Tables : \A bp \in 1..(qc_master_wait - 1) :
       LET m0 == [m_msg |-> M_BID, m_arg |-> 0, m_seq |-> 1]
           c == ResolveBid(Ctx(S_RUN, m0, bp, 0), check_votes(2, nis),
                           check_votes_msg(2, nis, m0))
       IN C30_Resolves(2, nis, m0, bp + 1,
                       c.qc_status, c.msg, c.bid_pending)

(* C30 -- bid resolution order: in a cycle in which a bid is pending and   *)
(* no master exists when the election arm is chosen, the node increments   *)
(* bid_pending and resolves in priority order: (3) every tracked-alive     *)
(* peer publishes ACK for this node: MASTER with message NONE and          *)
(* bid_pending 0 if bid_pending >= master_wait, otherwise the bid is kept; *)
(* else (2) a tracked-alive peer publishes NACK against this node: message *)
(* NONE, bid_pending 0; else (1) a tracked-alive peer with a lower id is   *)
(* bidding: message ACK for the lowest such bidder, bid_pending 0; else    *)
(* (0) the message stays BID and the bid stays pending.  This holds of     *)
(* check_votes and the switch on every node table (C30_Switch does not     *)
(* depend on the state and is evaluated in the steps that leave the        *)
(* initial state), and of every cycle.                                     *)
C30_BidResolution ==
    [][/\ ev.kind = "none" => C30_Switch
       /\ (ev'.kind = "loop" /\ ~ev'.evicted /\ ~ev'.reboot) =>
             LET i == ev'.node IN
             /\ ev'.branch = 3 <=>
                   (ev'.master = 0 /\ bid_pending[i] > 0
                      /\ qc_status'[i] >= S_RUN /\ ~ev'.abdicated
                      /\ ev'.mstatus = ev'.status0)
             /\ ev'.branch = 3 =>
                   /\ C30_Resolves(i, ni'[i], msg[i], bid_pending[i] + 1,
                                   qc_status'[i], msg'[i], bid_pending'[i])
                   /\ disk'[i].ps_msg = msg'[i].m_msg
                   /\ disk'[i].ps_arg = msg'[i].m_arg
                   /\ disk'[i].ps_seq = msg'[i].m_seq]_vars

(* a bidder finds a lower bidder and votes for it *)
C30_Witness ==
    /\ ev.kind = "loop"
    /\ ev.branch = 3
    /\ ev.own.ps_msg = M_BID
    /\ msg[ev.node].m_msg = M_ACK
    /\ msg[ev.node].m_arg < ev.node
    /\ ni[ev.node][msg[ev.node].m_arg].ni_status.ps_msg = M_BID
    /\ ni[ev.node][msg[ev.node].m_arg].ni_state >= S_RUN
    /\ bid_pending[ev.node] = 0
    /\ qc_status[ev.node] = S_RUN

C32_ScoreReq ==
    \A scoremin \in -1..4 : \A smax \in 0..3 :
       LET req == ScoreReq(scoremin, smax) IN
       /\ req = IF scoremin > 0 THEN scoremin ELSE (smax \div 2) + 1
       /\ smax < scoremin =>
            \A sc \in 0..smax :
            \A st \in {S_NONE, S_RUN, S_MASTER} :
            \A m \in {M_NONE, M_BID, M_ACK} :
            \A bp \in 0..qc_master_wait : \A up \in 0..qc_upgrade_wait :
               LET c == ScoreGate(Ctx(st, [NoMsg EXCEPT !.m_msg = m],
                                      bp, up), sc, req)
               IN (st = S_NONE => bp = 0 /\ m # M_BID) =>
                  /\ c.qc_status = S_NONE
                  /\ c.msg.m_msg # M_BID
                  /\ c.bid_pending = 0
                  /\ \A master \in 0..2 : \A low_id \in 1..2 :
                        /\ ~Conflict(c, 2, master, 1)
                        /\ Branch(c, 2, master, low_id) \in {0, 2}

(* C32 -- required score: in every cycle score_req is min_score when       *)
(* min_score > 0 and max_score/2 + 1 (integer division) otherwise; a node  *)
(* whose score is below it in a cycle of quorum_loop ends the cycle in     *)
(* state NONE, publishes no BID and is not MASTER, and a node whose score  *)
(* reaches it is RUN or MASTER.  With max_score < min_score every cycle is *)
(* of the first kind (C32_ScoreReq, which does not depend on the state and *)
(* is evaluated in the steps that leave the initial state).                *)
C32_RequiredScore ==
    [][/\ ev.kind = "none" => C32_ScoreReq
       /\ (ev'.kind = "loop" /\ ~ev'.evicted) =>
             LET i == ev'.node
                 req == IF qc_scoremin > 0 THEN qc_scoremin
                        ELSE (score_max \div 2) + 1
             IN /\ ev'.low = (score[i] < req)
                /\ ev'.low =>
                     /\ qc_status'[i] = S_NONE
                     /\ msg'[i].m_msg # M_BID
                     /\ bid_pending'[i] = 0
                     /\ ev'.branch \in {0, 2}
                     /\ ~ev'.won
                     /\ ~ev'.reboot =>
                          /\ disk'[i].ps_state = S_NONE
                          /\ disk'[i].ps_msg # M_BID
                /\ ~ev'.low => qc_status'[i] >= S_RUN]_vars

(* a node that has had an insufficient score since it entered quorum_loop  *)
(* is still NONE cycles later, with no master around                       *)
C32_Witness ==
    /\ ev.kind = "loop"
    /\ ev.low
    /\ ev.status0 = S_NONE
    /\ ev.master = 0
    /\ ev.own.ps_state = S_NONE
    /\ ev.own.ps_updatenode = ev.node
    /\ ev.own.ps_incarnation = qc_incarnation[ev.node]
    /\ ni[ev.node][ev.node].ni_status.ps_state = S_NONE
    /\ disk[ev.node].ps_state = S_NONE
    /\ disk[ev.node].ps_msg # M_BID
    /\ qc_status[ev.node] = S_NONE

(* C33 as stated -- seq advances with every message change: whenever the   *)
(* message type or arg in a node's own block differs between two           *)
(* consecutive writes of quorum_loop, the seq of the later write is        *)
(* strictly greater.                                                       *)
C33_SeqAdvances ==
    [][\A i \in Nodes :
          (/\ ev'.kind = "loop" /\ ev'.node = i /\ ev'.wrote >= 0
           /\ pc[i] = "loop" /\ pc'[i] = "loop"
           /\ disk[i].ps_updatenode = i
           /\ disk[i].ps_incarnation = qc_incarnation[i]
           /\ \/ disk'[i].ps_msg # disk[i].ps_msg
              \/ disk'[i].ps_arg # disk[i].ps_arg) =>
             disk'[i].ps_seq > disk[i].ps_seq]_vars

(* C33 -- seq between two consecutive writes of quorum_loop: seq is        *)
(* incremented by one when the node is promoted, downgraded or abdicates,  *)
(* and by one when it makes a bid; when it votes (from the voting arm, or  *)
(* from check_votes while bidding) seq becomes the seq of the bidder's     *)
(* block, whatever its own was; otherwise it is unchanged, in particular   *)
(* when a bid ends with message NONE on assuming MASTER.                   *)
C33_Seq ==
    [][\A i \in Nodes :
          (/\ ev'.kind = "loop" /\ ev'.node = i /\ ev'.wrote >= 0
           /\ pc[i] = "loop" /\ pc'[i] = "loop"
           /\ disk[i].ps_updatenode = i
           /\ disk[i].ps_incarnation = qc_incarnation[i]) =>
             LET base == disk[i].ps_seq
                           + (IF ev'.mstatus # ev'.status0 THEN 1 ELSE 0)
                           + (IF ev'.abdicated THEN 1 ELSE 0)
                 low == LowBidders(i, ni'[i])
                 bidders == VoteBidders(i, ni'[i])
             IN /\ disk'[i].ps_seq = msg'[i].m_seq
                /\ disk'[i].ps_seq =
                     IF ev'.branch = 1 THEN base + 1
                     ELSE IF ev'.branch = 2 /\ low # {}
                     THEN ni'[i][Min(low)].ni_status.ps_seq
                     ELSE IF ev'.branch = 3 /\ bidders # {}
                     THEN ni'[i][Min(bidders)].ni_status.ps_seq
                     ELSE base
                /\ ev'.won =>
                     /\ disk[i].ps_msg = M_BID
                     /\ disk'[i].ps_msg = M_NONE
                     /\ disk'[i].ps_seq = disk[i].ps_seq]_vars

(* a bid won: BID, then NONE with the same seq *)
C33_Witness ==
    /\ ev.kind = "loop"
    /\ ev.won
    /\ ev.own.ps_msg = M_BID
    /\ ev.own.ps_state = S_RUN
    /\ disk[ev.node].ps_state = S_MASTER
    /\ disk[ev.node].ps_msg = M_NONE
    /\ disk[ev.node].ps_seq = ev.own.ps_seq

(* C34 -- bid flag consistency: for a node in quorum_loop, bid_pending > 0 *)
(* if and only if its outgoing message is BID, in memory and in the block  *)
(* written at the end of the cycle; bid_pending is 0 whenever the local    *)
(* state is NONE or MASTER.                                                *)
C34_BidFlag ==
    /\ \A i \in Nodes :
          pc[i] = "loop" =>
             /\ bid_pending[i] > 0 <=> msg[i].m_msg = M_BID
             /\ qc_status[i] \in {S_NONE, S_MASTER} => bid_pending[i] = 0
             /\ bid_pending[i] > 0 => qc_status[i] = S_RUN
    /\ (ev.kind = "loop" /\ ev.wrote >= 0 /\ pc[ev.node] = "loop") =>
          /\ disk[ev.node].ps_msg = M_BID <=> bid_pending[ev.node] > 0
          /\ disk[ev.node].ps_msg = M_BID => disk[ev.node].ps_state = S_RUN

(* a bid that stays pending, and published, while the bidder sees a master *)
C34_Witness ==
    /\ ev.kind = "loop"
    /\ ev.wrote = S_RUN
    /\ ev.master # 0
    /\ ev.branch = 6
    /\ bid_pending[ev.node] > 0
    /\ msg[ev.node].m_msg = M_BID
    /\ disk[ev.node].ps_msg = M_BID

(* C35 -- mask/tracker consistency: for a node in quorum_loop and every    *)
(* peer p other than the node, p's bit in the outgoing mask (kept, and     *)
(* written in the block) is set if and only if p's tracked state is        *)
(* runnable (INIT, RUN or MASTER); bits of peers tracked NONE or EVICT,    *)
(* including peers handled by the undead case, are clear, whatever the     *)
(* mask of the previous cycle was.                                         *)
C35_MaskTracksState ==
    /\ \A i \in Nodes :
          pc[i] = "loop" =>
             mask[i] \ {i} =
                {p \in Nodes \ {i} : state_run(ni[i][p].ni_state) # 0}
    /\ (ev.kind = "loop" /\ ev.wrote >= 0 /\ pc[ev.node] = "loop") =>
          /\ disk[ev.node].ps_mask \ {ev.node} =
                {p \in Nodes \ {ev.node} :
                    state_run(ni[ev.node][p].ni_state) # 0}
          /\ \A p \in Nodes \ {ev.node} :
                ev.cases[p] \in {1, 2, 3} =>
                   /\ ni[ev.node][p].ni_state \in {S_NONE, S_EVICT}
                   /\ p \notin disk[ev.node].ps_mask

(* a peer whose bit was in the block written a cycle ago is timed out, and *)
(* an undead peer: the bit is clear                                        *)
C35_Witness ==
    /\ ev.kind = "loop"
    /\ ev.wrote >= 0
    /\ pc[ev.node] = "loop"
    /\ \E p \in Nodes \ {ev.node} :
          /\ \/ ev.cases[p] = 3
             \/ ev.cases[p] = 2 /\ p \in ev.own.ps_mask
                  /\ ev.own.ps_updatenode = ev.node
          /\ p \notin mask[ev.node]
          /\ p \notin disk[ev.node].ps_mask

(* the nodes in quorum_loop whose local state is MASTER and whose own      *)
(* block, written by themselves, reports MASTER                            *)
C36_Published ==
    {n \in Nodes : /\ pc[n] = "loop"
                   /\ qc_status[n] = S_MASTER
                   /\ disk[n].ps_state = S_MASTER
                   /\ disk[n].ps_updatenode = n}

(* C36 -- conflict resolution keeps the lowest master: in a cycle without  *)
(* read errors of a node whose local state is MASTER, whose own block      *)
(* reports MASTER and that observes other masters (tracked RUN or higher,  *)
(* block MASTER), the node stays MASTER without abdicating when its id is  *)
(* lower than theirs, and abdicates to RUN when one of them has a lower    *)
(* id; the master it abdicates to has published MASTER and, being in       *)
(* quorum_loop, is MASTER and tracks no lower master, so the masters of a  *)
(* conflict never all abdicate.                                            *)
C36_LowestKeeps ==
    [][\A i \in Nodes :
          (/\ ev'.kind = "loop" /\ ev'.node = i
           /\ ~ev'.reboot /\ ~ev'.evicted
           /\ i \in C36_Published
           /\ ev'.mstatus = S_MASTER
           /\ unreadable[i] = {}
           /\ ev'.others # {}) =>
             LET low == Min(ev'.others \cup {i})
             IN /\ ev'.master = low
                /\ low = i =>
                     /\ ~ev'.abdicated
                     /\ qc_status'[i] = S_MASTER
                     /\ pc'[i] = "loop" => disk'[i].ps_state = S_MASTER
                /\ low # i =>
                     /\ ev'.abdicated
                     /\ qc_status'[i] = S_RUN
                     /\ pc'[i] = "loop" => disk'[i].ps_state = S_RUN
                     /\ disk[low].ps_state = S_MASTER
                     /\ low \in C36_Published =>
                          /\ low \in C36_Published'
                          /\ \A k \in Nodes :
                                (k < low /\ ni[low][k].ni_state >= S_RUN) =>
                                   ni[low][k].ni_status.ps_state # S_MASTER
          ]_vars

(* two published masters that observe one another: the lower one saw the   *)
(* higher one's MASTER block in its last cycle and is still MASTER, and    *)
(* the higher one abdicates in this cycle                                  *)
C36_Witness ==
    /\ ev.kind = "loop"
    /\ ev.status0 = S_MASTER
    /\ ev.own.ps_state = S_MASTER
    /\ ev.own.ps_updatenode = ev.node
    /\ unreadable[ev.node] = {}
    /\ \E j \in ev.others :
          /\ j < ev.node
          /\ j \in C36_Published
          /\ ni[j][ev.node].ni_state >= S_RUN
          /\ ni[j][ev.node].ni_status.ps_state = S_MASTER
    /\ ev.abdicated
    /\ qc_status[ev.node] = S_RUN
    /\ disk[ev.node].ps_state = S_RUN

====
